---- MODULE Spec2Model ----
(***************************************************************************)
(* GEMCAT: adjacency transformation, expression integration, ranking and   *)
(* the Model orchestrator (src/src/gemcat).                                *)
(*                                                                         *)
(* Numbers.  The program computes in float64.  Matrix entries are held     *)
(* here as integers counting units of 1/3000, so that the splitting        *)
(* threshold 0.001 of split_matrix_pos_neg is 3 units and 1.0 is 3000      *)
(* units; stoichiometric coefficients are plain integers.  The guard       *)
(* epsilon 10**-20 of the transformations is below half an ulp of every    *)
(* non-zero entry (x + 1e-20 == x in float64 for |x| >= 1e-4) and is the   *)
(* whole denominator when x = 0, which is how OutgoingOne, UnitSign and    *)
(* NormaliseRow below treat it.  A normalised adjacency row is held        *)
(* exactly, as numerators over a common denominator in lowest terms; the   *)
(* float64 result differs from it by a relative error below 1e-13.         *)
(***************************************************************************)
EXTENDS Integers, Sequences, FiniteSets, Bags, TLC

\* ------------------------------------------------------------------------
\* Bounds of the explored inputs
\* ------------------------------------------------------------------------
NumMets == 3
NumRxns == 2
MaxCoef == 2

Mets == 1..NumMets
Rxns == 1..NumRxns
Coefs == (0 - MaxCoef)..MaxCoef

\* ------------------------------------------------------------------------
\* Arithmetic helpers
\* ------------------------------------------------------------------------
Abs(x) == IF x < 0 THEN 0 - x ELSE x

RECURSIVE GCD(_, _)
GCD(a, b) == IF b = 0 THEN Abs(a) ELSE GCD(b, a % Abs(b))

RECURSIVE SumSeq(_)
SumSeq(s) == IF Len(s) = 0 THEN 0 ELSE Head(s) + SumSeq(Tail(s))

RECURSIVE GCDSeq(_)
GCDSeq(s) == IF Len(s) = 0 THEN 0 ELSE GCD(Head(s), GCDSeq(Tail(s)))

\* utils.split_matrix_pos_neg: epsilon = 0.001, in units of 1/3000
epsilon == 3
\* 1.0 in units of 1/3000
One == 1000 * epsilon

Ok(v) == [status |-> "ok", value |-> v]
Raise(e) == [status |-> e, value |-> <<>>]
NoResult == [status |-> "none", value |-> <<>>]

\* the value of Body for an argument that is evaluated once
Bind(value, Body(_)) == CHOOSE result \in {Body(v) : v \in {value}} : TRUE

NRows(M) == Len(M)
NCols(M) == IF Len(M) = 0 THEN 0 ELSE Len(M[1])

\* ------------------------------------------------------------------------
\* utils.py
\* ------------------------------------------------------------------------
\* isinstance(x, bool): reversibility entries are "True" / "False";
\* any other value stands for a non-bool object
IsBool(x) == x \in {"True", "False"}

\* stoich_matrix[:, reversibilities]: the indices of the reversible columns
RECURSIVE SelectTrue(_, _)
SelectTrue(revs, k) ==
  IF k > Len(revs) THEN <<>>
  ELSE IF revs[k] = "True" THEN <<k>> \o SelectTrue(revs, k + 1)
       ELSE SelectTrue(revs, k + 1)

\* make_unidirectional without the isinstance check of the entries
make_unidirectional_unchecked(stoich_matrix, reversibilities) ==
  LET sel == SelectTrue(reversibilities, 1)
      reversible_part(i) ==
        [n \in 1..Len(sel) |-> (0 - 1) * stoich_matrix[i][sel[n]]]
  IN  Ok([i \in 1..NRows(stoich_matrix) |->
            stoich_matrix[i] \o reversible_part(i)])

\* make_unidirectional appending the reversible columns as they are
make_unidirectional_unnegated(stoich_matrix, reversibilities) ==
  IF \E k \in 1..Len(reversibilities) : ~IsBool(reversibilities[k])
  THEN Raise("TypeError")
  ELSE LET sel == SelectTrue(reversibilities, 1)
           reversible_part(i) ==
             [n \in 1..Len(sel) |-> stoich_matrix[i][sel[n]]]
       IN  Ok([i \in 1..NRows(stoich_matrix) |->
                 stoich_matrix[i] \o reversible_part(i)])

make_unidirectional(stoich_matrix, reversibilities) ==
  IF \E k \in 1..Len(reversibilities) : ~IsBool(reversibilities[k])
  THEN Raise("TypeError")
  ELSE LET sel == SelectTrue(reversibilities, 1)
           reversible_part(i) ==
             [n \in 1..Len(sel) |-> (0 - 1) * stoich_matrix[i][sel[n]]]
       IN  Ok([i \in 1..NRows(stoich_matrix) |->
                 stoich_matrix[i] \o reversible_part(i)])

\* split_matrix_pos_neg with the positive mask matrix > -epsilon
split_matrix_pos_neg_overlapping(matrix) ==
  LET positive_part == [i \in 1..NRows(matrix) |-> [k \in 1..NCols(matrix) |->
                          IF matrix[i][k] > 0 - epsilon THEN matrix[i][k] ELSE 0]]
      negative_part == [i \in 1..NRows(matrix) |-> [k \in 1..NCols(matrix) |->
                          IF matrix[i][k] < epsilon THEN matrix[i][k] ELSE 0]]
  IN  <<positive_part, negative_part>>

split_matrix_pos_neg(matrix) ==
  LET positive_part == [i \in 1..NRows(matrix) |-> [k \in 1..NCols(matrix) |->
                          IF matrix[i][k] > epsilon THEN matrix[i][k] ELSE 0]]
      negative_part == [i \in 1..NRows(matrix) |-> [k \in 1..NCols(matrix) |->
                          IF matrix[i][k] < epsilon THEN matrix[i][k] ELSE 0]]
  IN  <<positive_part, negative_part>>

\* ------------------------------------------------------------------------
\* adjacency_transformation.py
\* ------------------------------------------------------------------------
\* x / (x + 10**-20) in float64: 0 for x = 0, 1 for every other entry
OutgoingOne(x) == IF x = 0 THEN 0 ELSE 1

\* x / abs(x + 10**-20) in float64: the sign of x
UnitSign(x) == IF x = 0 THEN 0 ELSE IF x < 0 THEN 0 - 1 ELSE 1

\* stoich_matrix * expression with numpy broadcasting: an expression of
\* length r scales column k by entry k, one of length 1 scales every column
\* by its only entry, any other length cannot be broadcast
ScaleColumns(stoich_matrix, expression) ==
  LET r == NCols(stoich_matrix) IN
  IF Len(expression) = r
  THEN Ok([i \in 1..NRows(stoich_matrix) |-> [k \in 1..r |->
             stoich_matrix[i][k] * expression[k]]])
  ELSE IF Len(expression) = 1
  THEN Ok([i \in 1..NRows(stoich_matrix) |-> [k \in 1..r |->
             stoich_matrix[i][k] * expression[1]]])
  ELSE Raise("ValueError")

\* left @ transpose(right)
MatMulT(left, right) ==
  [i \in 1..NRows(left) |-> [j \in 1..NRows(right) |->
     SumSeq([k \in 1..NCols(left) |-> left[i][k] * right[j][k]])]]

\* one row of adjacencies / (row sum + 10**-20), in lowest terms
NormaliseRow(row, total) ==
  IF total = 0
  THEN [num |-> [j \in 1..Len(row) |-> 0], den |-> 1]
  ELSE LET g == GCD(GCDSeq(row), total)
           s == IF total < 0 THEN 0 - g ELSE g
       IN  [num |-> [j \in 1..Len(row) |-> row[j] \div s], den |-> total \div s]

\* DivideByRowSum summing along the other axis (sum(axis=0))
DivideByColumnSum(adjacencies) ==
  [i \in 1..NRows(adjacencies) |->
     NormaliseRow(adjacencies[i],
                  SumSeq([n \in 1..NRows(adjacencies) |-> adjacencies[n][i]]))]

\* col_sum = adjacencies.sum(axis=1) + epsilon; np.divide(adjacencies, col_sum)
DivideByRowSum(adjacencies) ==
  [i \in 1..NRows(adjacencies) |->
     NormaliseRow(adjacencies[i], SumSeq(adjacencies[i]))]

\* np.abs(matrix)
AbsMatrix(matrix) ==
  [i \in 1..NRows(matrix) |-> [k \in 1..NCols(matrix) |-> Abs(matrix[i][k])]]

\* np.divide(matrix, (matrix + epsilon))
OutgoingOnes(matrix) ==
  [i \in 1..NRows(matrix) |-> [k \in 1..NCols(matrix) |-> OutgoingOne(matrix[i][k])]]

\* matrix / np.abs(matrix + epsilon)
UnitSigns(matrix) ==
  [i \in 1..NRows(matrix) |-> [k \in 1..NCols(matrix) |-> UnitSign(matrix[i][k])]]

ATFullStoich(stoich_matrix, reversibilities, expression) ==
  Bind(ScaleColumns(stoich_matrix, expression), LAMBDA scaled :
    IF scaled.status # "ok" THEN scaled ELSE
    Bind(make_unidirectional(scaled.value, reversibilities), LAMBDA uni :
      IF uni.status # "ok" THEN uni ELSE
      Bind(split_matrix_pos_neg(uni.value), LAMBDA parts :
        Bind(MatMulT(AbsMatrix(parts[2]), parts[1]), LAMBDA adjacencies :
          Ok(DivideByRowSum(adjacencies))))))

ATHalfStoich(stoich_matrix, reversibilities, expression) ==
  Bind(ScaleColumns(stoich_matrix, expression), LAMBDA scaled :
    IF scaled.status # "ok" THEN scaled ELSE
    Bind(make_unidirectional(scaled.value, reversibilities), LAMBDA uni :
      IF uni.status # "ok" THEN uni ELSE
      Bind(split_matrix_pos_neg(uni.value), LAMBDA parts :
        Bind(OutgoingOnes(parts[2]), LAMBDA outgoing_ones :
          Bind(MatMulT(outgoing_ones, parts[1]), LAMBDA adjacencies :
            Ok(DivideByRowSum(adjacencies)))))))

\* ATPureAdjacency without the expansion of the reversible reactions
ATPureAdjacencyOneWay(stoich_matrix, reversibilities, expression) ==
  Bind(ScaleColumns(UnitSigns(stoich_matrix), expression), LAMBDA scaled :
    IF scaled.status # "ok" THEN scaled ELSE
    Bind(split_matrix_pos_neg(scaled.value), LAMBDA parts :
      Bind(OutgoingOnes(parts[2]), LAMBDA outgoing_ones :
        Bind(MatMulT(outgoing_ones, parts[1]), LAMBDA adjacencies :
          Ok(DivideByRowSum(adjacencies))))))

\* ATPureAdjacency without the division by the magnitudes
ATPureAdjacencyStoich(stoich_matrix, reversibilities, expression) ==
  Bind(ScaleColumns(stoich_matrix, expression), LAMBDA scaled :
    IF scaled.status # "ok" THEN scaled ELSE
    Bind(make_unidirectional(scaled.value, reversibilities), LAMBDA uni :
      IF uni.status # "ok" THEN uni ELSE
      Bind(split_matrix_pos_neg(uni.value), LAMBDA parts :
        Bind(OutgoingOnes(parts[2]), LAMBDA outgoing_ones :
          Bind(MatMulT(outgoing_ones, parts[1]), LAMBDA adjacencies :
            Ok(DivideByRowSum(adjacencies)))))))

ATPureAdjacency(stoich_matrix, reversibilities, expression) ==
  Bind(ScaleColumns(UnitSigns(stoich_matrix), expression), LAMBDA scaled :
    IF scaled.status # "ok" THEN scaled ELSE
    Bind(make_unidirectional(scaled.value, reversibilities), LAMBDA uni :
      IF uni.status # "ok" THEN uni ELSE
      Bind(split_matrix_pos_neg(uni.value), LAMBDA parts :
        Bind(OutgoingOnes(parts[2]), LAMBDA outgoing_ones :
          Bind(MatMulT(outgoing_ones, parts[1]), LAMBDA adjacencies :
            Ok(DivideByRowSum(adjacencies)))))))

Policies == {"ATFullStoich", "ATHalfStoich", "ATPureAdjacency"}

\* adjacency_transformation.transform, dispatched on the policy object
Transform(policy, stoich_matrix, reversibilities, expression) ==
  CASE policy = "ATFullStoich" ->
         ATFullStoich(stoich_matrix, reversibilities, expression)
    [] policy = "ATHalfStoich" ->
         ATHalfStoich(stoich_matrix, reversibilities, expression)
    [] policy = "ATPureAdjacency" ->
         ATPureAdjacency(stoich_matrix, reversibilities, expression)

\* ------------------------------------------------------------------------
\* Python objects
\* ------------------------------------------------------------------------
\* a value handed to load_metabolite_seeds: None, a list, or another sequence
NoneObj == [type |-> "NoneType", items |-> <<>>]
ListObj(items) == [type |-> "list", items |-> items]
TupleObj(items) == [type |-> "tuple", items |-> items]

\* a value handed to load_expression: an ExpressionIntegration holding its
\* mapped_values, or an object of another class (a bare array of the values)
NoExpression == [type |-> "NoneType", mapped_values |-> <<>>]
ExpressionObj(cls, mapped_values) == [type |-> cls, mapped_values |-> mapped_values]
ExpressionClasses == {"ExpressionMapSingleAverage", "GeometricAndAverageMeans"}

\* ------------------------------------------------------------------------
\* ranking.py
\* ------------------------------------------------------------------------
\* names of the nodes of nx.DiGraph(array): range(n), written as strings
DefaultNames == <<"0", "1", "2", "3", "4", "5">>

\* nx.DiGraph(adjacency_matrix): nodes 0..n-1 in order, an edge for every
\* non-zero entry, weighted by the entry
DiGraph(adjacency_matrix) ==
  LET n == Len(adjacency_matrix) IN
  [nodes |-> [i \in 1..n |-> DefaultNames[i]],
   edges |-> {<<DefaultNames[i], DefaultNames[j],
                <<adjacency_matrix[i].num[j], adjacency_matrix[i].den>>>> :
                 <<i, j>> \in {e \in (1..n) \X (1..n) :
                                 adjacency_matrix[e[1]].num[e[2]] # 0}}]

\* first position of a value in a sequence (0 if absent)
RECURSIVE IndexOf(_, _, _)
IndexOf(seq, x, k) ==
  IF k > Len(seq) THEN 0 ELSE IF seq[k] = x THEN k ELSE IndexOf(seq, x, k + 1)

\* a sequence without the repetitions of earlier entries (dict key order)
RECURSIVE Dedupe(_, _)
Dedupe(seq, k) ==
  IF k > Len(seq) THEN <<>>
  ELSE IF IndexOf(seq, seq[k], 1) < k THEN Dedupe(seq, k + 1)
       ELSE <<seq[k]>> \o Dedupe(seq, k + 1)

\* last position of a value in the first n entries of a sequence
RECURSIVE LastIndexOf(_, _, _)
LastIndexOf(seq, x, n) ==
  IF n = 0 THEN 0 ELSE IF seq[n] = x THEN n ELSE LastIndexOf(seq, x, n - 1)

Min(a, b) == IF a < b THEN a ELSE b

\* dict(zip(keys, values)): as long as the shorter argument, a repeated key
\* keeps its last value
DictZip(keys, values) ==
  LET n == Min(Len(keys), Len(values)) IN
  [k \in {keys[i] : i \in 1..n} |-> values[LastIndexOf(keys, k, n)]]

\* rename_unnamed_graph pairing the nodes with the names in reverse order
rename_unnamed_graph_reversed(graph, names) ==
  IF Len(graph.nodes) # Len(names) THEN Raise("ValueError")
  ELSE LET name_mapping ==
             DictZip(SubSeq(DefaultNames, 1, Len(names)),
                     [i \in 1..Len(names) |-> names[Len(names) + 1 - i]])
           new(n) == IF n \in DOMAIN name_mapping THEN name_mapping[n] ELSE n
       IN  Ok([nodes |-> Dedupe([i \in 1..Len(graph.nodes) |-> new(graph.nodes[i])], 1),
               edges |-> {<<new(e[1]), new(e[2]), e[3]>> : e \in graph.edges}])

rename_unnamed_graph(graph, names) ==
  IF Len(graph.nodes) # Len(names) THEN Raise("ValueError")
  ELSE LET name_mapping == DictZip(SubSeq(DefaultNames, 1, Len(names)), names)
           new(n) == IF n \in DOMAIN name_mapping THEN name_mapping[n] ELSE n
       IN  Ok([nodes |-> Dedupe([i \in 1..Len(graph.nodes) |-> new(graph.nodes[i])], 1),
               edges |-> {<<new(e[1]), new(e[2]), e[3]>> : e \in graph.edges}])

\* nx.pagerank(graph, **pr_args).  The solver is the library's; its result is
\* a dict keyed by node in the order of the graph's nodes.  The score of a
\* node is kept as the term (graph, personalization, node) the solver
\* computes it from, so equal scores here are equal scores for any
\* deterministic solver.  A personalization whose weights sum to zero makes
\* the solver divide by zero.
pagerank(graph, pr_args) ==
  IF /\ pr_args.has_personalization
     /\ SumSeq([i \in 1..Len(graph.nodes) |->
                  IF graph.nodes[i] \in DOMAIN pr_args.personalization
                  THEN pr_args.personalization[graph.nodes[i]] ELSE 0]) = 0
  THEN Raise("ZeroDivisionError")
  ELSE Ok([i \in 1..Len(graph.nodes) |->
             <<graph.nodes[i],
               [node |-> graph.nodes[i], nodes |-> graph.nodes, edges |-> graph.edges,
                personalization |-> [n \in 1..Len(graph.nodes) |->
                   IF pr_args.has_personalization
                   THEN <<IF graph.nodes[n] \in DOMAIN pr_args.personalization
                          THEN pr_args.personalization[graph.nodes[n]] ELSE 0>>
                   ELSE <<>>]]>>])

EmptyArgs == [has_personalization |-> FALSE, personalization |-> <<>>]

\* PagerankNX.propagate(adjacency_matrix, seeds, names, graph_args, pr_args):
\* np.array(list(results.values()))
IsSeeded(seeds) == seeds.type = "list" /\ Len(seeds.items) > 0

\* pr_args after pr_args["personalization"] = dict(zip(names, seeds))
Personalize(pr_args, seeds, names) ==
  IF IsSeeded(seeds)
  THEN [has_personalization |-> TRUE,
        personalization |-> DictZip(names, seeds.items)]
  ELSE pr_args

propagate(adjacency_matrix, seeds, names, pr_args) ==
  Bind(DiGraph(adjacency_matrix), LAMBDA graph :
    Bind(Personalize(pr_args, seeds, names), LAMBDA args :
      Bind(IF IsSeeded(seeds) THEN rename_unnamed_graph(graph, names) ELSE Ok(graph),
           LAMBDA renamed :
        IF renamed.status # "ok" THEN renamed ELSE
        Bind(pagerank(renamed.value, args), LAMBDA results :
          IF results.status # "ok" THEN results
          ELSE Ok([i \in 1..Len(results.value) |-> results.value[i][2]])))))

\* utils.annotate_scores: pd.Series(scores, index=metabolite_ids)
annotate_scores(scores, metabolite_ids) ==
  IF Len(scores) # Len(metabolite_ids) THEN Raise("ValueError")
  ELSE Ok([i \in 1..Len(scores) |-> <<metabolite_ids[i], scores[i]>>])

\* ------------------------------------------------------------------------
\* model.py: the methods of Model, as functions of the object's fields
\* ------------------------------------------------------------------------
\* what a call leaves behind: the object and the call's outcome
Done(model, status, value, recomputed) ==
  [model |-> model, status |-> status, value |-> value, recomputed |-> recomputed]

\* load_metabolite_seeds marking the adjacency cache stale on a new list
load_metabolite_seeds_invalidating(self, seeds) ==
  IF seeds.type = "NoneType"
  THEN Done([self EXCEPT !.seeds = NoneObj], "ok", <<>>, FALSE)
  ELSE IF seeds.type # "list"
  THEN Done(self, "TypeError", <<>>, FALSE)
  ELSE IF Len(seeds.items) # self.dimensions[1]
  THEN Done(self, "ValueError", <<>>, FALSE)
  ELSE Done([self EXCEPT !.seeds = seeds, !.adjacencies_are_current = FALSE],
            "ok", <<>>, FALSE)

\* load_metabolite_seeds without the comparison of the length
load_metabolite_seeds_any_length(self, seeds) ==
  IF seeds.type = "NoneType"
  THEN Done([self EXCEPT !.seeds = NoneObj], "ok", <<>>, FALSE)
  ELSE IF seeds.type # "list"
  THEN Done(self, "TypeError", <<>>, FALSE)
  ELSE Done([self EXCEPT !.seeds = seeds], "ok", <<>>, FALSE)

load_metabolite_seeds(self, seeds) ==
  IF seeds.type = "NoneType"
  THEN Done([self EXCEPT !.seeds = NoneObj], "ok", <<>>, FALSE)
  ELSE IF seeds.type # "list"
  THEN Done(self, "TypeError", <<>>, FALSE)
  ELSE IF Len(seeds.items) # self.dimensions[1]
  THEN Done(self, "ValueError", <<>>, FALSE)
  ELSE Done([self EXCEPT !.seeds = seeds], "ok", <<>>, FALSE)

\* Model._update_expression_vector
update_expression_vector(self) ==
  IF self.expression.type # "NoneType"
  THEN [self EXCEPT !.expression_vector = self.expression.mapped_values]
  ELSE [self EXCEPT !.expression_vector = [k \in 1..self.expression_shape[2] |-> One]]

\* load_expression that leaves the freshness flag as it is
load_expression_keeps_flag(self, expression) ==
  IF expression.type \notin ExpressionClasses
  THEN Done(self, "TypeError", <<>>, FALSE)
  ELSE Done(update_expression_vector([self EXCEPT !.expression = expression]),
            "ok", <<>>, FALSE)

\* load_expression that marks the cache stale before it checks the type
load_expression_checks_late(self, expression) ==
  IF expression.type \notin ExpressionClasses
  THEN Done([self EXCEPT !.adjacencies_are_current = FALSE], "TypeError", <<>>, FALSE)
  ELSE Done(update_expression_vector(
              [self EXCEPT !.adjacencies_are_current = FALSE,
                           !.expression = expression]),
            "ok", <<>>, FALSE)

load_expression(self, expression) ==
  IF expression.type \notin ExpressionClasses
  THEN Done(self, "TypeError", <<>>, FALSE)
  ELSE Done(update_expression_vector(
              [self EXCEPT !.adjacencies_are_current = FALSE,
                           !.expression = expression]),
            "ok", <<>>, FALSE)

\* Model._update_adjacencies
update_adjacencies(self) ==
  Bind(Transform(self.adjacency_transformation, self.stoichiometric_matrix,
                 self.reversibilities, self.expression_vector),
       LAMBDA adjacencies :
    IF adjacencies.status # "ok"
    THEN Done(self, adjacencies.status, <<>>, FALSE)
    ELSE Done([self EXCEPT !.adjacencies = adjacencies.value], "ok", <<>>, TRUE))

\* _check_and_reload_adjacencies that recomputes whatever the flag says
check_and_reload_adjacencies_always(self) ==
  Bind(update_adjacencies(self), LAMBDA updated :
    IF updated.status # "ok" THEN updated
    ELSE Done([updated.model EXCEPT !.adjacencies_are_current = TRUE],
              "ok", <<>>, TRUE))

\* _check_and_reload_adjacencies that sets the flag before it recomputes
check_and_reload_adjacencies_marks_first(self) ==
  IF ~self.adjacencies_are_current
  THEN Bind(update_adjacencies(self), LAMBDA updated :
         IF updated.status # "ok"
         THEN Done([self EXCEPT !.adjacencies_are_current = TRUE],
                   updated.status, <<>>, FALSE)
         ELSE Done([updated.model EXCEPT !.adjacencies_are_current = TRUE],
                   "ok", <<>>, TRUE))
  ELSE Done(self, "ok", <<>>, FALSE)

\* Model._check_and_reload_adjacencies
check_and_reload_adjacencies(self) ==
  IF ~self.adjacencies_are_current
  THEN Bind(update_adjacencies(self), LAMBDA updated :
         IF updated.status # "ok" THEN updated
         ELSE Done([updated.model EXCEPT !.adjacencies_are_current = TRUE],
                   "ok", <<>>, TRUE))
  ELSE Done(self, "ok", <<>>, FALSE)

\* Model.calculate(), called without graph_args and pr_args
calculate(self) ==
  Bind(check_and_reload_adjacencies(self), LAMBDA reloaded :
    IF reloaded.status # "ok" THEN reloaded ELSE
    Bind(propagate(reloaded.model.adjacencies, reloaded.model.seeds,
                   reloaded.model.metabolite_names, EmptyArgs),
         LAMBDA scores :
      IF scores.status # "ok"
      THEN Done(reloaded.model, scores.status, <<>>, reloaded.recomputed)
      ELSE Bind([reloaded.model EXCEPT !.scores = scores.value], LAMBDA stored :
             Bind(annotate_scores(scores.value, stored.metabolite_names),
                  LAMBDA series :
               Done(stored, series.status, series.value, reloaded.recomputed)))))

\* Model.calculate(pr_args=d) with a dict d of the caller
calculate_pr_args(self, pr_args) ==
  Bind(check_and_reload_adjacencies(self), LAMBDA reloaded :
    IF reloaded.status # "ok" THEN reloaded ELSE
    Bind(propagate(reloaded.model.adjacencies, reloaded.model.seeds,
                   reloaded.model.metabolite_names, pr_args),
         LAMBDA scores :
      IF scores.status # "ok"
      THEN Done(reloaded.model, scores.status, <<>>, reloaded.recomputed)
      ELSE Bind([reloaded.model EXCEPT !.scores = scores.value], LAMBDA stored :
             Bind(annotate_scores(scores.value, stored.metabolite_names),
                  LAMBDA series :
               Done(stored, series.status, series.value, reloaded.recomputed)))))

\* the dict d after Model.calculate(pr_args=d): propagate, once reached,
\* stores the personalization in it before it renames and ranks the graph
pr_args_after_calculate(self, pr_args) ==
  Bind(check_and_reload_adjacencies(self), LAMBDA reloaded :
    IF reloaded.status # "ok" THEN pr_args
    ELSE Personalize(pr_args, reloaded.model.seeds,
                     reloaded.model.metabolite_names))

\* the nodes joined to a node by an edge in either direction
Neighbours(graph, node) ==
  {e[2] : e \in {x \in graph.edges : x[1] = node}}
    \cup {e[1] : e \in {x \in graph.edges : x[2] = node}}

\* the nodes one edge away from a set of nodes, without going on from them
ReachedOnce(graph, seen) ==
  seen \cup UNION {Neighbours(graph, node) : node \in seen}

\* the nodes reached from a set of nodes over edges in either direction
RECURSIVE Reached(_, _)
Reached(graph, seen) ==
  Bind(seen \cup UNION {Neighbours(graph, node) : node \in seen}, LAMBDA next :
    IF next = seen THEN seen ELSE Reached(graph, next))

\* the components of the nodes from position k on that are not in seen
RECURSIVE ComponentsFrom(_, _, _)
ComponentsFrom(graph, k, seen) ==
  IF k > Len(graph.nodes) THEN <<>>
  ELSE IF graph.nodes[k] \in seen THEN ComponentsFrom(graph, k + 1, seen)
  ELSE Bind(Reached(graph, {graph.nodes[k]}), LAMBDA component :
         <<component>> \o ComponentsFrom(graph, k + 1, seen \cup component))

\* nx.algorithms.weakly_connected_components(graph): one set of nodes per
\* component, in the order of the first node of each
weakly_connected_components(graph) == ComponentsFrom(graph, 1, {})

\* [self.metabolite_names[met_no] for met_no in subnetwork]: a set of small
\* ints is iterated in ascending order
SubnetworkNames(graph, subnetwork, metabolite_names) ==
  Bind(SelectSeq(graph.nodes, LAMBDA node : node \in subnetwork), LAMBDA met_nos :
    [n \in 1..Len(met_nos) |-> metabolite_names[IndexOf(DefaultNames, met_nos[n], 1)]])

\* Model.get_subnetworks
get_subnetworks(self) ==
  Bind(check_and_reload_adjacencies(self), LAMBDA reloaded :
    IF reloaded.status # "ok" THEN reloaded ELSE
    Bind(DiGraph(reloaded.model.adjacencies), LAMBDA graph :
      Bind(weakly_connected_components(graph), LAMBDA connected :
        Done(reloaded.model, "ok",
             [c \in 1..Len(connected) |->
                SubnetworkNames(graph, connected[c], reloaded.model.metabolite_names)],
             reloaded.recomputed))))

\* Model.__init__ with the default ranking
NewModel(stoichiometric_matrix, metabolite_names, reversibilities, adjacency, metabolite_seeds) ==
  LET fields ==
        [stoichiometric_matrix |-> stoichiometric_matrix,
         adjacencies |-> <<>>,
         dimensions |-> <<NRows(stoichiometric_matrix), NCols(stoichiometric_matrix)>>,
         expression_shape |-> <<1, NCols(stoichiometric_matrix)>>,
         adjacency_transformation |-> adjacency,
         metabolite_names |-> metabolite_names,
         expression_vector |-> <<>>,
         reversibilities |-> reversibilities,
         expression |-> NoExpression,
         adjacencies_are_current |-> FALSE,
         scores |-> <<>>,
         seeds |-> NoneObj]
  IN  load_metabolite_seeds(update_expression_vector(fields), metabolite_seeds)

\* ------------------------------------------------------------------------
\* expression.py
\* ------------------------------------------------------------------------
\* a reaction score before fillna: <<>> is NaN, <<v>> the value v
NaN == <<>>

\* ExpressionIntegration.fillna with the default fill_fn: series.fillna(1.0)
fillna(mapped_values) ==
  [k \in 1..Len(mapped_values) |->
     IF mapped_values[k] = NaN THEN One ELSE mapped_values[k][1]]

\* the map that averages over the genes found in data only
SingleAverageValuesOfPresent(data, gpr) ==
  [k \in 1..Len(gpr) |->
     LET expression == SelectSeq(gpr[k], LAMBDA gene : gene \in DOMAIN data)
     IN  IF Len(expression) = 0 THEN NaN
         ELSE <<SumSeq([g \in 1..Len(expression) |-> data[expression[g]]])
                  \div Len(expression)>>]

\* ExpressionMapSingleAverage.map before its call of fillna; gpr lists the
\* genes of each reaction in reaction order, data maps gene ids to values
\* (values are even numbers of units for at most two genes, or multiples
\* of 1.0 for at most four, so the mean is a whole number of units)
SingleAverageValues(data, gpr) ==
  [k \in 1..Len(gpr) |->
     LET expression == [g \in 1..Len(gpr[k]) |->
                          IF gpr[k][g] \in DOMAIN data THEN data[gpr[k][g]] ELSE 0]
     IN  IF Len(expression) = 0 THEN NaN
         ELSE <<SumSeq(expression) \div Len(expression)>>]

\* ExpressionMapSingleAverage(data, gpr): the object after __init__
ExpressionMapSingleAverage(data, gpr) ==
  ExpressionObj("ExpressionMapSingleAverage", fillna(SingleAverageValues(data, gpr)))

\* ------------------------------------------------------------------------
\* expression.py: Python strings, held as sequences of one-character strings
\* ------------------------------------------------------------------------
DigitChars == <<"0", "1", "2", "3", "4", "5", "6", "7", "8", "9">>

IsDigit(c) == \E d \in 1..10 : DigitChars[d] = c

\* the value of a digit character
DigitValue(c) == (CHOOSE d \in 1..10 : DigitChars[d] = c) - 1

\* str(n) for an int n >= 0
RECURSIVE Digits(_)
Digits(n) ==
  IF n < 10 THEN <<DigitChars[n + 1]>>
  ELSE Digits(n \div 10) \o <<DigitChars[(n % 10) + 1]>>

\* f"{gene_val}" for a float that is a whole number below 1e16: "2.0"
format_float(gene_val) == Digits(gene_val \div One) \o <<".", "0">>

\* s[i:].startswith(prefix), positions counted from 1
StartsWith(s, i, prefix) ==
  /\ i + Len(prefix) - 1 <= Len(s)
  /\ SubSeq(s, i, i + Len(prefix) - 1) = prefix

\* s[i:].replace(old, new) for a non-empty old: the occurrences of old are
\* taken from the left and do not overlap
RECURSIVE ReplaceFrom(_, _, _, _)
ReplaceFrom(s, i, old, new) ==
  IF i > Len(s) THEN <<>>
  ELSE IF StartsWith(s, i, old)
       THEN new \o ReplaceFrom(s, i + Len(old), old, new)
       ELSE <<s[i]>> \o ReplaceFrom(s, i + 1, old, new)

\* str.replace(old, new)
replace(s, old, new) == ReplaceFrom(s, 1, old, new)

\* s[i:].split(sep)
RECURSIVE SplitFrom(_, _, _, _)
SplitFrom(s, i, start, sep) ==
  IF i > Len(s) THEN <<SubSeq(s, start, Len(s))>>
  ELSE IF StartsWith(s, i, sep)
       THEN <<SubSeq(s, start, i - 1)>>
              \o SplitFrom(s, i + Len(sep), i + Len(sep), sep)
       ELSE SplitFrom(s, i + 1, start, sep)

\* str.split(sep)
split(s, sep) == SplitFrom(s, 1, 1, sep)

\* str.strip(): without the blanks at both ends
RECURSIVE strip(_)
strip(s) ==
  IF Len(s) = 0 THEN s
  ELSE IF Head(s) = " " THEN strip(Tail(s))
  ELSE IF s[Len(s)] = " " THEN strip(SubSeq(s, 1, Len(s) - 1))
  ELSE s

\* sep.join(parts)
RECURSIVE join(_, _)
join(sep, parts) ==
  IF Len(parts) = 0 THEN <<>>
  ELSE IF Len(parts) = 1 THEN parts[1]
  ELSE parts[1] \o sep \o join(sep, Tail(parts))

\* ------------------------------------------------------------------------
\* expression.py: re_and = "\d*\.\d*(?: and \d*\.\d*)+"
\* ------------------------------------------------------------------------
\* the position after the digits that start at position i
RECURSIVE SkipDigits(_, _)
SkipDigits(s, i) ==
  IF i <= Len(s) /\ IsDigit(s[i]) THEN SkipDigits(s, i + 1) ELSE i

\* re_float matched at position i: the position after the match, 0 without
\* a match (both \d* take every digit there is: what follows them is no digit)
MatchFloat(s, i) ==
  Bind(SkipDigits(s, i), LAMBDA dot :
    IF dot <= Len(s) /\ s[dot] = "." THEN SkipDigits(s, dot + 1) ELSE 0)

AndWord == <<" ", "a", "n", "d", " ">>

\* (?: and re_float)* matched at position i: the position after the last
\* repetition that matches
RECURSIVE MatchAndFloats(_, _)
MatchAndFloats(s, i) ==
  IF ~StartsWith(s, i, AndWord) THEN i
  ELSE Bind(MatchFloat(s, i + Len(AndWord)), LAMBDA after :
         IF after = 0 THEN i ELSE MatchAndFloats(s, after))

\* re_and matched at position i: the position after the match, 0 without
MatchAnd(s, i) ==
  Bind(MatchFloat(s, i), LAMBDA first :
    IF first = 0 THEN 0
    ELSE Bind(MatchAndFloats(s, first), LAMBDA last :
           IF last = first THEN 0 ELSE last))

\* re_and.findall(s[i:]): the matches from the left, without overlap
RECURSIVE FindAllFrom(_, _)
FindAllFrom(s, i) ==
  IF i > Len(s) THEN <<>>
  ELSE Bind(MatchAnd(s, i), LAMBDA after :
         IF after = 0 THEN FindAllFrom(s, i + 1)
         ELSE <<SubSeq(s, i, after - 1)>> \o FindAllFrom(s, after))

\* re_and.findall(s)
findall(s) == FindAllFrom(s, 1)

\* ------------------------------------------------------------------------
\* expression.py: GeometricAndAverageMeans.rewrite_single_gpr
\* ------------------------------------------------------------------------
\* Python literals
OrWord == <<"o", "r">>
PlusSign == <<"+">>
AndSeparator == <<"a", "n", "d">>
CommaBlank == <<",", " ">>
GeomeanName == <<"g", "e", "o", "m", "e", "a", "n">>

\* for gene in genes: gpr = gpr.replace(str(gene), f"{gene_val}") with
\* gene_val = float(self.data.get(gene_str, self.gene_fill)); the genes from
\* position g on
RECURSIVE SubstituteGenes(_, _, _, _, _)
SubstituteGenes(gpr, genes, g, data, gene_fill) ==
  IF g > Len(genes) THEN gpr
  ELSE SubstituteGenes(
         replace(gpr, genes[g],
                 format_float(IF genes[g] \in DOMAIN data THEN data[genes[g]]
                              ELSE gene_fill)),
         genes, g + 1, data, gene_fill)

\* new = f"geomean({gids})" for one hit of re_and
GeomeanCall(hit) ==
  GeomeanName \o <<"(">>
    \o join(CommaBlank, [n \in 1..Len(split(hit, AndSeparator)) |->
                            strip(split(hit, AndSeparator)[n])])
    \o <<")">>

\* for hit in hits: gpr = gpr.replace("(" + hit + ")", "(" + new + ")");
\* the hits from position h on
RECURSIVE RewriteHits(_, _, _)
RewriteHits(gpr, hits, h) ==
  IF h > Len(hits) THEN gpr
  ELSE RewriteHits(
         replace(gpr, <<"(">> \o hits[h] \o <<")">>,
                 <<"(">> \o GeomeanCall(hits[h]) \o <<")">>),
         hits, h + 1)

\* rewrite_single_gpr without the rewriting of the and-groups
rewrite_single_gpr_no_geomean(gpr, genes, data, gene_fill) ==
  IF Len(gpr) = 0 THEN <<>>
  ELSE replace(SubstituteGenes(gpr, genes, 1, data, gene_fill), OrWord, PlusSign)

\* rewrite_single_gpr for a reaction with the rule gpr (a str) and the
\* gene list genes
rewrite_single_gpr(gpr, genes, data, gene_fill) ==
  IF Len(gpr) = 0 THEN <<>>
  ELSE Bind(replace(SubstituteGenes(gpr, genes, 1, data, gene_fill),
                    OrWord, PlusSign),
            LAMBDA replaced : RewriteHits(replaced, findall(replaced), 1))

\* ------------------------------------------------------------------------
\* expression.py: the numbers of eval_single_gpr.  A number is a rational
\* part (in units of 1/3000) plus a bag of geometric means that are not
\* rational, each held as the bag of its arguments; the gene values of the
\* explored inputs are 0, 2 and 3, for which two numbers are equal
\* exactly when these parts are equal.  Symbolic is a sympy expression that
\* float() rejects.
\* ------------------------------------------------------------------------
Number(rational, radicals) ==
  [kind |-> "number", rational |-> rational, radicals |-> radicals]

Rational(units) == Number(units, EmptyBag)

Symbolic == [kind |-> "symbol", rational |-> 0, radicals |-> EmptyBag]

\* the bag of the entries of a sequence
RECURSIVE BagOf(_)
BagOf(seq) ==
  IF Len(seq) = 0 THEN EmptyBag ELSE SetToBag({Head(seq)}) (+) BagOf(Tail(seq))

\* utils.geometric_mean(*numbers) for rational numbers >= 0:
\* prod ** (1 / n_numbers)
geometric_mean(numbers) ==
  IF \E n \in 1..Len(numbers) : numbers[n] = 0 THEN Rational(0)
  ELSE IF \A n \in 1..Len(numbers) : numbers[n] = numbers[1]
  THEN Rational(numbers[1])
  ELSE Number(0, SetToBag({BagOf(numbers)}))

\* a + b
Add(a, b) ==
  IF a.kind = "symbol" \/ b.kind = "symbol" THEN Symbolic
  ELSE Number(a.rational + b.rational, a.radicals (+) b.radicals)

\* bool(a)
Truthy(a) == a.kind = "symbol" \/ a.rational # 0 \/ a.radicals # EmptyBag

\* ------------------------------------------------------------------------
\* expression.py: parse_expr(gpr, {"geomean": geomean}), for strings of
\* digits, letters, blanks and the characters . + ( ) ,
\* ------------------------------------------------------------------------
LetterChars ==
  {"a", "b", "c", "d", "e", "f", "g", "h", "i", "j", "k", "l", "m", "n", "o",
   "p", "q", "r", "s", "t", "u", "v", "w", "x", "y", "z", "G", "R", "_"}

OperatorChars == {"+", "(", ")", ","}

Token(t, v, chars) == [t |-> t, v |-> v, s |-> chars]

EndToken == Token("end", 0, <<>>)

\* int(digits)
RECURSIVE DecimalValue(_)
DecimalValue(digits) ==
  IF Len(digits) = 0 THEN 0
  ELSE 10 * DecimalValue(SubSeq(digits, 1, Len(digits) - 1))
         + DigitValue(digits[Len(digits)])

RECURSIVE Pow10(_)
Pow10(n) == IF n = 0 THEN 1 ELSE 10 * Pow10(n - 1)

\* float(whole + "." + fraction) in units of 1/3000 (exact for the fractions
\* of up to three digits that the explored inputs produce)
FloatUnits(whole, fraction) ==
  DecimalValue(whole) * One + (DecimalValue(fraction) * One) \div Pow10(Len(fraction))

\* the position after the letters and digits that start at position i
RECURSIVE SkipNameChars(_, _)
SkipNameChars(s, i) ==
  IF i <= Len(s) /\ (s[i] \in LetterChars \/ IsDigit(s[i]))
  THEN SkipNameChars(s, i + 1) ELSE i

\* the NUMBER token that starts at position i, as <<token, position after>>:
\* digits "." digits is a float, "." digits is a float, digits alone are an
\* int, which must not start with 0 unless all its digits are 0
NumberToken(s, i) ==
  Bind(SkipDigits(s, i), LAMBDA dot :
    IF dot <= Len(s) /\ s[dot] = "."
    THEN Bind(SkipDigits(s, dot + 1), LAMBDA after :
           <<Token("number",
                   FloatUnits(SubSeq(s, i, dot - 1), SubSeq(s, dot + 1, after - 1)),
                   <<>>),
             after>>)
    ELSE IF s[i] = "0" /\ DecimalValue(SubSeq(s, i, dot - 1)) # 0
    THEN <<Token("error", 0, <<>>), dot>>
    ELSE <<Token("number", DecimalValue(SubSeq(s, i, dot - 1)) * One, <<>>), dot>>)

\* the tokens of s[i:]
RECURSIVE Tokenize(_, _)
Tokenize(s, i) ==
  IF i > Len(s) THEN <<>>
  ELSE IF s[i] = " " THEN Tokenize(s, i + 1)
  ELSE IF IsDigit(s[i]) \/ (s[i] = "." /\ i < Len(s) /\ IsDigit(s[i + 1]))
  THEN Bind(NumberToken(s, i), LAMBDA number :
         <<number[1]>> \o Tokenize(s, number[2]))
  ELSE IF s[i] \in LetterChars
  THEN Bind(SkipNameChars(s, i), LAMBDA after :
         <<Token("name", 0, SubSeq(s, i, after - 1))>> \o Tokenize(s, after))
  ELSE IF s[i] \in OperatorChars
  THEN <<Token("op", 0, <<s[i]>>)>> \o Tokenize(s, i + 1)
  ELSE <<Token("error", 0, <<>>)>> \o Tokenize(s, i + 1)

TokenAt(toks, i) == IF i <= Len(toks) THEN toks[i] ELSE EndToken

IsOp(tok, char) == tok.t = "op" /\ tok.s = <<char>>

IsAnd(tok) == tok.t = "name" /\ tok.s = AndSeparator

\* a node of the syntax tree
Node(op, v, chars, args) == [op |-> op, v |-> v, s |-> chars, args |-> args]

\* the outcome of parsing from a position: a tree and the position after it
Parsed(ast, next) == [status |-> "ok", ast |-> ast, next |-> next]

SyntaxError == [status |-> "SyntaxError", ast |-> <<>>, next |-> 0]

RECURSIVE ParseAndTest(_, _)
RECURSIVE ParseAndRest(_, _)
RECURSIVE ParseArith(_, _)
RECURSIVE ParseArithRest(_, _)
RECURSIVE ParseFactor(_, _)
RECURSIVE ParseAtom(_, _)
RECURSIVE ParseTrailers(_, _)
RECURSIVE ParseArgs(_, _, _)

\* and_test: arith ("and" arith)*
ParseAndTest(toks, i) ==
  Bind(ParseArith(toks, i), LAMBDA left :
    IF left.status # "ok" THEN left ELSE ParseAndRest(toks, left))

ParseAndRest(toks, left) ==
  IF ~IsAnd(TokenAt(toks, left.next)) THEN left
  ELSE Bind(ParseArith(toks, left.next + 1), LAMBDA right :
         IF right.status # "ok" THEN right
         ELSE ParseAndRest(toks, Parsed(Node("and", 0, <<>>, <<left.ast, right.ast>>),
                                        right.next)))

\* arith: factor ("+" factor)*
ParseArith(toks, i) ==
  Bind(ParseFactor(toks, i), LAMBDA left :
    IF left.status # "ok" THEN left ELSE ParseArithRest(toks, left))

ParseArithRest(toks, left) ==
  IF ~IsOp(TokenAt(toks, left.next), "+") THEN left
  ELSE Bind(ParseFactor(toks, left.next + 1), LAMBDA right :
         IF right.status # "ok" THEN right
         ELSE ParseArithRest(toks, Parsed(Node("add", 0, <<>>, <<left.ast, right.ast>>),
                                          right.next)))

\* factor: "+" factor | atom trailer*
ParseFactor(toks, i) ==
  IF IsOp(TokenAt(toks, i), "+")
  THEN Bind(ParseFactor(toks, i + 1), LAMBDA operand :
         IF operand.status # "ok" THEN operand
         ELSE Parsed(Node("pos", 0, <<>>, <<operand.ast>>), operand.next))
  ELSE Bind(ParseAtom(toks, i), LAMBDA atom :
         IF atom.status # "ok" THEN atom ELSE ParseTrailers(toks, atom))

\* atom: NUMBER | NAME | "(" and_test ")"
ParseAtom(toks, i) ==
  Bind(TokenAt(toks, i), LAMBDA tok :
    IF tok.t = "number" THEN Parsed(Node("number", tok.v, <<>>, <<>>), i + 1)
    ELSE IF tok.t = "name" /\ ~IsAnd(tok)
    THEN Parsed(Node("name", 0, tok.s, <<>>), i + 1)
    ELSE IF IsOp(tok, "(")
    THEN Bind(ParseAndTest(toks, i + 1), LAMBDA inner :
           IF inner.status # "ok" THEN inner
           ELSE IF IsOp(TokenAt(toks, inner.next), ")")
           THEN Parsed(inner.ast, inner.next + 1)
           ELSE SyntaxError)
    ELSE SyntaxError)

\* trailer: "(" arguments ")"
ParseTrailers(toks, atom) ==
  IF ~IsOp(TokenAt(toks, atom.next), "(") THEN atom
  ELSE Bind(ParseArgs(toks, atom.next + 1, <<atom.ast>>), LAMBDA call :
         IF call.status # "ok" THEN call ELSE ParseTrailers(toks, call))

\* arguments: [and_test ("," and_test)* [","]]; items holds the called
\* expression and the arguments read so far
ParseArgs(toks, i, items) ==
  IF IsOp(TokenAt(toks, i), ")")
  THEN Parsed(Node("call", 0, <<>>, items), i + 1)
  ELSE Bind(ParseAndTest(toks, i), LAMBDA argument :
         IF argument.status # "ok" THEN argument
         ELSE IF IsOp(TokenAt(toks, argument.next), ",")
         THEN ParseArgs(toks, argument.next + 1, Append(items, argument.ast))
         ELSE IF IsOp(TokenAt(toks, argument.next), ")")
         THEN Parsed(Node("call", 0, <<>>, Append(items, argument.ast)),
                     argument.next + 1)
         ELSE SyntaxError)

\* the syntax tree of the whole string
Parse(gpr) ==
  Bind(Tokenize(gpr, 1), LAMBDA toks :
    Bind(ParseAndTest(toks, 1), LAMBDA parsed :
      IF parsed.status = "ok" /\ parsed.next = Len(toks) + 1 THEN parsed
      ELSE SyntaxError))

\* the arguments of a call from position n on, evaluated from the left
RECURSIVE Evaluate(_)
RECURSIVE EvaluateArgs(_, _, _)
EvaluateArgs(args, n, values) ==
  IF n > Len(args) THEN Ok(values)
  ELSE Bind(Evaluate(args[n]), LAMBDA value :
         IF value.status # "ok" THEN value
         ELSE EvaluateArgs(args, n + 1, Append(values, value.value)))

\* geomean(*numbers): float(i) rejects a symbol, no number is an error
CallGeomean(numbers) ==
  IF Len(numbers) = 0 THEN Raise("ValueError")
  ELSE IF \E n \in 1..Len(numbers) : numbers[n].kind = "symbol"
  THEN Raise("TypeError")
  ELSE IF \E n \in 1..Len(numbers) : numbers[n].radicals # EmptyBag
  THEN Raise("NotModelled")
  ELSE Ok(geometric_mean([n \in 1..Len(numbers) |-> numbers[n].rational]))

\* the value of a syntax tree: names other than geomean are sympy symbols
\* and undefined functions, "and" is Python's (the left operand if it is
\* false, else the right one), only geomean and undefined functions can
\* be called
Evaluate(ast) ==
  CASE ast.op = "number" -> Ok(Rational(ast.v))
    [] ast.op = "name" -> Ok(Symbolic)
    [] ast.op = "pos" -> Evaluate(ast.args[1])
    [] ast.op = "add" ->
         Bind(Evaluate(ast.args[1]), LAMBDA left :
           IF left.status # "ok" THEN left
           ELSE Bind(Evaluate(ast.args[2]), LAMBDA right :
                  IF right.status # "ok" THEN right
                  ELSE Ok(Add(left.value, right.value))))
    [] ast.op = "and" ->
         Bind(Evaluate(ast.args[1]), LAMBDA left :
           IF left.status # "ok" THEN left
           ELSE IF ~Truthy(left.value) THEN left
           ELSE Evaluate(ast.args[2]))
    [] ast.op = "call" ->
         Bind(EvaluateArgs(ast.args, 2, <<>>), LAMBDA numbers :
           IF ast.args[1].op # "name"
           THEN Bind(Evaluate(ast.args[1]), LAMBDA called :
                  IF called.status # "ok" THEN called
                  ELSE IF numbers.status # "ok" THEN numbers
                  ELSE Raise("TypeError"))
           ELSE IF numbers.status # "ok" THEN numbers
           ELSE IF ast.args[1].s = GeomeanName THEN CallGeomean(numbers.value)
           ELSE Ok(Symbolic))

\* parse_expr(gpr, {"geomean": geomean}): an exception of the tokenizer or
\* of the compiler is SyntaxError here
parse_expr(gpr) ==
  Bind(Parse(gpr), LAMBDA parsed :
    IF parsed.status # "ok" THEN Raise("SyntaxError") ELSE Evaluate(parsed.ast))

\* GeometricAndAverageMeans.eval_single_gpr: NaN, <<number>> or an exception
\* that parse_expr raised
eval_single_gpr(gpr) ==
  IF Len(gpr) = 0 THEN Ok(NaN)
  ELSE Bind(parse_expr(gpr), LAMBDA result :
         IF result.status # "ok" THEN result
         ELSE IF result.value.kind = "symbol" THEN Ok(NaN)
         ELSE Ok(<<result.value>>))

\* GeometricAndAverageMeans.rewrite_gpr: gpr holds the rule of each reaction
\* in the order of the dict, reaction_gene_mapping the gene list of each
\* reaction, data maps gene ids to values
rewrite_gpr(gpr, reaction_gene_mapping, data, gene_fill) ==
  [k \in 1..Len(gpr) |->
     rewrite_single_gpr(gpr[k], reaction_gene_mapping[k], data, gene_fill)]

\* the first reaction from k on whose evaluation raised, 0 if there is none
RECURSIVE FirstRaised(_, _)
FirstRaised(evaluated, k) ==
  IF k > Len(evaluated) THEN 0
  ELSE IF evaluated[k].status # "ok" THEN k
  ELSE FirstRaised(evaluated, k + 1)

\* GeometricAndAverageMeans.map: quant_gpr.map(eval_single_gpr), ended by
\* the first exception
map(quant_gpr) ==
  Bind([k \in 1..Len(quant_gpr) |-> eval_single_gpr(quant_gpr[k])],
       LAMBDA evaluated :
    Bind(FirstRaised(evaluated, 1), LAMBDA raised :
      IF raised # 0 THEN Raise(evaluated[raised].status)
      ELSE Ok([k \in 1..Len(evaluated) |-> evaluated[k].value])))

\* fillna that leaves the series as it is
fillna_numbers_skipped(mapped_values) == mapped_values

\* ExpressionIntegration.fillna with the default fill_fn on the numbers of
\* eval_single_gpr
fillna_numbers(mapped_values) ==
  [k \in 1..Len(mapped_values) |->
     IF mapped_values[k] = NaN THEN <<Rational(One)>> ELSE mapped_values[k]]

\* the object after GeometricAndAverageMeans.__init__, or the exception
\* that ended it: mapped is mapped_values as map() left it, mapped_values
\* the field after fillna()
Integration(status, quant_gpr, mapped, mapped_values) ==
  [status |-> status, quant_gpr |-> quant_gpr, mapped |-> mapped,
   mapped_values |-> mapped_values]

GeometricAndAverageMeans(gpr, reaction_gene_mapping, data, gene_fill) ==
  Bind(rewrite_gpr(gpr, reaction_gene_mapping, data, gene_fill),
       LAMBDA quant_gpr :
    Bind(map(quant_gpr), LAMBDA mapped :
      IF mapped.status # "ok"
      THEN Integration(mapped.status, quant_gpr, <<>>, <<>>)
      ELSE Integration("ok", quant_gpr, mapped.value, fillna_numbers(mapped.value))))

\* ------------------------------------------------------------------------
\* workflows.py
\* ------------------------------------------------------------------------
\* workflow_avg_single on a cobra model given by its stoichiometric matrix,
\* metabolite ids, reversibilities and the genes of its reactions
workflow_avg_single(stoich_matrix, metabolites, rev, gpr, mapped_genes) ==
  Bind(NewModel(stoich_matrix, metabolites, rev, "ATPureAdjacency", NoneObj).model,
       LAMBDA converted :
    Bind(ExpressionMapSingleAverage(mapped_genes, gpr), LAMBDA expression :
      Bind(load_expression(
             [converted EXCEPT !.adjacency_transformation = "ATPureAdjacency"],
             expression),
           LAMBDA loaded :
        IF loaded.status # "ok" THEN loaded ELSE calculate(loaded.model))))

\* ------------------------------------------------------------------------
\* State
\* ------------------------------------------------------------------------
VARIABLES
  model,     \* the fields of the Model object
  ret,       \* the latest call on the Model: operation, argument, outcome
  tS,        \* run_adjacencies_normalize: stoichiometric matrix
  tRev,      \* run_adjacencies_normalize: reversibilities
  tExpr,     \* run_adjacencies_normalize: expression vector
  tOut,      \* run_adjacencies_normalize: the result under each policy
  wfS,       \* workflow: stoichiometric matrix of the cobra model
  wfRev,     \* workflow: reversibilities of the cobra model
  wfGpr,     \* workflow: genes of each reaction of the cobra model
  wfGenes,   \* workflow: the gene expression series
  wfSingle,  \* workflow: outcome of workflow_avg_single on the series
  wfDouble,  \* workflow: outcome of workflow_avg_single on the doubled series
  xRules,    \* expression: the gene product rule of each reaction
  xData,     \* expression: the gene expression series
  xFill,     \* expression: gene_fill
  xGeo,      \* expression: outcome of GeometricAndAverageMeans(...)
  xAvg,      \* expression: outcome of ExpressionMapSingleAverage(...)
  prAdj,     \* propagate: adjacency matrix
  prNames,   \* propagate: names
  prSeeds,   \* propagate: seeds
  prOut,     \* propagate: outcome of PagerankNX.propagate(...)
  vIndex,    \* verification: index of the series
  vDtype,    \* verification: dtype of the series
  vOut,      \* verification: outcome of _verify_data(data)
  callerArgs \* the dict a caller passes as pr_args to calculate()

mvars == <<model, ret>>
tvars == <<tS, tRev, tExpr, tOut>>
wvars == <<wfS, wfRev, wfGpr, wfGenes, wfSingle, wfDouble>>
xvars == <<xRules, xData, xFill, xGeo, xAvg>>
pvars == <<prAdj, prNames, prSeeds, prOut>>
dvars == <<vIndex, vDtype, vOut>>
vars == <<model, ret, tS, tRev, tExpr, tOut, wfS, wfRev, wfGpr, wfGenes,
          wfSingle, wfDouble, xRules, xData, xFill, xGeo, xAvg,
          prAdj, prNames, prSeeds, prOut, vIndex, vDtype, vOut, callerArgs>>

NoCall == [op |-> "none", arg |-> <<>>, status |-> "none", value |-> <<>>,
           recomputed |-> FALSE, after |-> "none", replaced |-> FALSE]

IdleModel == model = <<>> /\ ret = NoCall
IdleAT == tS = <<>> /\ tRev = <<>> /\ tExpr = <<>> /\ tOut = <<>>
IdleWF == /\ wfS = <<>> /\ wfRev = <<>> /\ wfGpr = <<>> /\ wfGenes = <<>>
          /\ wfSingle = NoResult /\ wfDouble = NoResult
IdleEx == /\ xRules = <<>> /\ xData = <<>> /\ xFill = 0
          /\ xGeo = NoResult /\ xAvg = NoResult
IdlePR == prAdj = <<>> /\ prNames = <<>> /\ prSeeds = <<>> /\ prOut = NoResult
IdleVD == vIndex = <<>> /\ vDtype = "none" /\ vOut = NoResult
IdleCA == callerArgs = EmptyArgs

\* ------------------------------------------------------------------------
\* Inputs
\* ------------------------------------------------------------------------
NamePool == <<"A", "B", "C", "D", "E", "F">>
MetaboliteNames == SubSeq(NamePool, 1, NumMets)

\* expression values: 0.00067 (below the splitting threshold), 1.0
ExprVals == {2, One}
Matrices == [Mets -> [Rxns -> Coefs]]
RevLists == [Rxns -> {"True", "False"}]
ExprVectors == [Rxns -> ExprVals]

\* the first reaction turns the first metabolite into the second and two of
\* the last, every other reaction turns the first into the last
Branching ==
  [i \in Mets |-> [k \in Rxns |->
     IF i = 1 THEN 0 - 1
     ELSE IF i = NumMets THEN (IF k = 1 THEN 2 ELSE 1)
     ELSE IF i = 2 /\ k = 1 THEN 1 ELSE 0]]

\* the linear chain of tests/test_model.py: reaction k turns metabolite k
\* into metabolite k + 1
Chain ==
  [i \in Mets |-> [k \in Rxns |->
     IF i = k THEN 0 - 1 ELSE IF i = k + 1 THEN 1 ELSE 0]]

\* two subnetworks as in test_get_subnetworks: the first reaction turns the
\* first metabolite into the second, every other reaction consumes the last
TwoNetworks ==
  [i \in Mets |-> [k \in Rxns |->
     IF k = 1 THEN (IF i = 1 THEN 0 - 1 ELSE IF i = 2 THEN 1 ELSE 0)
     ELSE IF i = NumMets THEN 0 - 1 ELSE 0]]

ModelMatrices == {Branching, Chain}
ModelRevLists == {[k \in Rxns |-> "False"], [k \in Rxns |-> "True"]}

\* reversibilities with the int 1 in place of a bool
IntRevList == [k \in Rxns |-> IF k = 1 THEN "1" ELSE "True"]

\* the stoichiometric matrix and the reversibilities a Model is built from
ModelInputs ==
  (ModelMatrices \X ModelRevLists)
    \cup {<<TwoNetworks, [k \in Rxns |-> "False"]>>, <<Chain, IntRevList>>}

UniformExpression == [k \in Rxns |-> One]
SkewedExpression == [k \in Rxns |-> IF k = 1 THEN 2 * One ELSE One]
ModelExprVectors == {UniformExpression, SkewedExpression}

\* integrations whose mapped values are not one per reaction
SingleValue == <<2 * One>>
OneTooMany == [k \in 1..(NumRxns + 1) |-> One]

ExpressionArgs ==
  {ExpressionObj("ExpressionMapSingleAverage", v) : v \in ModelExprVectors}
    \cup {ExpressionObj("ndarray", SkewedExpression),
          ExpressionObj("GeometricAndAverageMeans", SingleValue),
          ExpressionObj("GeometricAndAverageMeans", OneTooMany)}

SeedArgs ==
  {NoneObj,
   ListObj([i \in Mets |-> IF i = NumMets THEN 1 ELSE 0]),
   ListObj([i \in Mets |-> 0]),
   ListObj([i \in 1..(NumMets + 1) |-> 1]),
   TupleObj([i \in Mets |-> 1])}

\* ------------------------------------------------------------------------
\* Specification of the Model object
\* ------------------------------------------------------------------------
Init ==
  /\ \E input \in ModelInputs, adjacency \in Policies :
       model = NewModel(input[1], MetaboliteNames, input[2], adjacency, NoneObj).model
  /\ ret = [NoCall EXCEPT !.op = "__init__", !.status = "ok"]
  /\ IdleAT
  /\ IdleWF
  /\ IdleEx
  /\ IdlePR
  /\ IdleVD
  /\ IdleCA

\* the record of a call that ends as `done`
Call(op, arg, done) ==
  [op |-> op, arg |-> <<arg>>, status |-> done.status, value |-> done.value,
   recomputed |-> done.recomputed, after |-> ret.op,
   replaced |-> /\ done.recomputed
                /\ model.adjacencies # <<>>
                /\ model.adjacencies # done.model.adjacencies]

LoadMetaboliteSeeds ==
  \E seeds \in SeedArgs :
    \E done \in {load_metabolite_seeds(model, seeds)} :
      /\ model' = done.model
      /\ ret' = Call("load_metabolite_seeds", seeds, done)
      /\ UNCHANGED <<tvars, wvars, xvars, pvars, dvars, callerArgs>>

LoadExpression ==
  \E expression \in ExpressionArgs :
    \E done \in {load_expression(model, expression)} :
      /\ model' = done.model
      /\ ret' = Call("load_expression", expression, done)
      /\ UNCHANGED <<tvars, wvars, xvars, pvars, dvars, callerArgs>>

Calculate ==
  \E done \in {calculate(model)} :
    /\ model' = done.model
    /\ ret' = Call("calculate", NoneObj, done)
    /\ UNCHANGED <<tvars, wvars, xvars, pvars, dvars, callerArgs>>

\* model.expression_vector = array, the assignment of tests/test_model.py
SetExpressionVector ==
  \E vector \in ModelExprVectors :
    /\ model' = [model EXCEPT !.expression_vector = vector]
    /\ ret' = Call("set_expression_vector", ExpressionObj("ndarray", vector),
                   Done(model', "ok", <<>>, FALSE))
    /\ UNCHANGED <<tvars, wvars, xvars, pvars, dvars, callerArgs>>

GetSubnetworks ==
  \E done \in {get_subnetworks(model)} :
    /\ model' = done.model
    /\ ret' = Call("get_subnetworks", NoneObj, done)
    /\ UNCHANGED <<tvars, wvars, xvars, pvars, dvars, callerArgs>>

Next ==
  \/ LoadMetaboliteSeeds
  \/ LoadExpression
  \/ Calculate
  \/ SetExpressionVector
  \/ GetSubnetworks

Spec == Init /\ [][Next]_vars

\* ------------------------------------------------------------------------
\* Specification of the transformations as pure functions:
\* run_adjacencies_normalize applied to every input of the bounded sets
\* ------------------------------------------------------------------------
InitAT ==
  /\ tS \in Matrices
  /\ tRev \in RevLists
  /\ tExpr \in ExprVectors
  /\ tOut = [p \in Policies |-> NoResult]
  /\ IdleModel
  /\ IdleWF
  /\ IdleEx
  /\ IdlePR
  /\ IdleVD
  /\ IdleCA

run_adjacencies_normalize(p) ==
  /\ tOut[p].status = "none"
  /\ tOut' = [tOut EXCEPT ![p] = Transform(p, tS, tRev, tExpr)]
  /\ UNCHANGED <<tS, tRev, tExpr, mvars, wvars, xvars, pvars, dvars, callerArgs>>

RunATFullStoich == run_adjacencies_normalize("ATFullStoich")

RunATHalfStoich ==
  /\ tOut["ATFullStoich"].status # "none"
  /\ run_adjacencies_normalize("ATHalfStoich")

RunATPureAdjacency ==
  /\ tOut["ATHalfStoich"].status # "none"
  /\ run_adjacencies_normalize("ATPureAdjacency")

NextAT == RunATFullStoich \/ RunATHalfStoich \/ RunATPureAdjacency

SpecAT == InitAT /\ [][NextAT]_vars

\* ------------------------------------------------------------------------
\* Specification of the single-condition workflow, run on a gene series
\* and on the series with every value doubled
\* ------------------------------------------------------------------------
GeneLists == {<<>>, <<"G1">>, <<"G2">>, <<"G1", "G2">>, <<"G1", "G3">>}
GeneSeries == [{"G1", "G2"} -> {2, One}]

Doubled(mapped_genes) == [g \in DOMAIN mapped_genes |-> 2 * mapped_genes[g]]

InitWF ==
  /\ wfS \in ModelMatrices
  /\ wfRev \in ModelRevLists
  /\ wfGpr \in [Rxns -> GeneLists]
  /\ wfGenes \in GeneSeries
  /\ wfSingle = NoResult
  /\ wfDouble = NoResult
  /\ IdleModel
  /\ IdleAT
  /\ IdleEx
  /\ IdlePR
  /\ IdleVD
  /\ IdleCA

\* what a workflow run returns, with the adjacency matrix it ranked
Outcome(done) ==
  [status |-> done.status, value |-> done.value,
   adjacencies |-> done.model.adjacencies,
   expression_vector |-> done.model.expression_vector]

RunSingle ==
  /\ wfSingle.status = "none"
  /\ wfSingle' = Outcome(workflow_avg_single(wfS, MetaboliteNames, wfRev, wfGpr, wfGenes))
  /\ UNCHANGED <<wfS, wfRev, wfGpr, wfGenes, wfDouble, mvars, tvars, xvars, pvars, dvars, callerArgs>>

RunDouble ==
  /\ wfDouble.status = "none"
  /\ wfDouble' = Outcome(workflow_avg_single(wfS, MetaboliteNames, wfRev, wfGpr,
                                             Doubled(wfGenes)))
  /\ UNCHANGED <<wfS, wfRev, wfGpr, wfGenes, wfSingle, mvars, tvars, xvars, pvars, dvars, callerArgs>>

NextWF == RunSingle \/ RunDouble

SpecWF == InitWF /\ [][NextWF]_vars

\* ------------------------------------------------------------------------
\* Specification of the expression integrations, constructed on the gene
\* product rules of NumRxns reactions and a gene expression series
\* ------------------------------------------------------------------------
\* gene ids as in tests/test_expression.py: "G1", "G2", ...
Gene(n) == <<"G">> \o Digits(n)

\* one alternative of a rule: a gene, or genes joined by "and"
Single(n) == [genes |-> <<Gene(n)>>, paren |-> FALSE]
Complex(ns) == [genes |-> [g \in 1..Len(ns) |-> Gene(ns[g])], paren |-> TRUE]
Bare(ns) == [genes |-> [g \in 1..Len(ns) |-> Gene(ns[g])], paren |-> FALSE]

AndBlanks == <<" ", "a", "n", "d", " ">>
OrBlanks == <<" ", "o", "r", " ">>

\* the text of an alternative and of a rule, cobra's gene_reaction_rule
RenderAlternative(alt) ==
  IF alt.paren THEN <<"(">> \o join(AndBlanks, alt.genes) \o <<")">>
  ELSE join(AndBlanks, alt.genes)

Render(alternatives) ==
  join(OrBlanks, [a \in 1..Len(alternatives) |-> RenderAlternative(alternatives[a])])

\* the genes of a rule, each once: [gene.id for gene in rxn.genes]
RECURSIVE GenesOf(_)
GenesOf(alternatives) ==
  IF Len(alternatives) = 0 THEN <<>>
  ELSE Dedupe(Head(alternatives).genes \o GenesOf(Tail(alternatives)), 1)

\* a reaction with its rule: the alternatives, the rule's text, the genes
\* of the reaction and the form of the text
Rule(alternatives) ==
  [alternatives |-> alternatives, text |-> Render(alternatives),
   genes |-> GenesOf(alternatives), form |-> "rule"]

\* or-combinations of genes and parenthesised and-groups; G4 has no value
\* in the series
ParenthesisedRules ==
  {Rule(<<Single(1)>>),
   Rule(<<Single(1), Single(2)>>),
   Rule(<<Single(4), Single(1)>>),
   Rule(<<Complex(<<1, 2>>)>>),
   Rule(<<Single(3), Complex(<<1, 2>>)>>),
   Rule(<<Complex(<<1, 2>>), Complex(<<3, 4>>)>>),
   Rule(<<Complex(<<1, 2, 3>>)>>),
   Rule(<<Complex(<<1, 2>>), Complex(<<1, 3>>)>>)}

\* rules with an and-group that is not in parentheses
BareRules ==
  {Rule(<<Bare(<<1, 2>>)>>),
   Rule(<<Single(3), Bare(<<1, 2>>)>>)}

\* a reaction without rule and without genes
EmptyRule == Rule(<<>>)

\* rules that are not expressions: "G1 or", "(G1 and G2", "G1 G2"
MalformedRules ==
  {[Rule(<<Single(1)>>) EXCEPT !.text = @ \o <<" ", "o", "r">>,
                               !.form = "malformed"],
   [Rule(<<Complex(<<1, 2>>)>>) EXCEPT !.text = SubSeq(@, 1, Len(@) - 1),
                                       !.form = "malformed"],
   [Rule(<<Single(1), Single(2)>>) EXCEPT !.text = Gene(1) \o <<" ">> \o Gene(2),
                                          !.form = "malformed"]}

\* a rule naming a gene that is not among the genes of the reaction
UnknownGeneRule ==
  [Rule(<<Single(1), Single(2)>>) EXCEPT !.genes = <<Gene(1)>>, !.form = "unknown"]

\* rules with the gene ids G1 and G10, one a substring of the other, with
\* the genes of the reaction listed in either order (rxn.genes is a set)
SubstringRules ==
  {Rule(<<Single(1), Single(10)>>),
   [Rule(<<Single(1), Single(10)>>) EXCEPT !.genes = <<Gene(10), Gene(1)>>],
   Rule(<<Complex(<<10, 1>>)>>)}

RuleCatalogue ==
  ParenthesisedRules \cup BareRules \cup MalformedRules \cup SubstringRules
    \cup {EmptyRule, UnknownGeneRule}

GeneValues == {0, 2 * One, 3 * One}
ExpressionSeries ==
  [{Gene(1), Gene(2), Gene(3)} -> GeneValues]
    \cup [{Gene(1), Gene(10)} -> {2 * One, 3 * One}]
GeneFills == {0, 2 * One}

InitEx ==
  /\ xRules \in [Rxns -> RuleCatalogue]
  /\ xData \in ExpressionSeries
  /\ xFill \in GeneFills
  /\ xGeo = NoResult
  /\ xAvg = NoResult
  /\ IdleModel
  /\ IdleAT
  /\ IdleWF
  /\ IdlePR
  /\ IdleVD
  /\ IdleCA

\* GeometricAndAverageMeans(gpr, reaction_gene_mapping, data, gene_fill)
ConstructGeometricAndAverageMeans ==
  /\ xGeo.status = "none"
  /\ xGeo' = GeometricAndAverageMeans([k \in Rxns |-> xRules[k].text],
                                      [k \in Rxns |-> xRules[k].genes],
                                      xData, xFill)
  /\ UNCHANGED <<xRules, xData, xFill, xAvg, mvars, tvars, wvars, pvars, dvars, callerArgs>>

\* ExpressionMapSingleAverage(data, gpr) with the gene lists of the reactions
ConstructExpressionMapSingleAverage ==
  /\ xAvg.status = "none"
  /\ \E gpr \in {[k \in Rxns |-> xRules[k].genes]} :
       xAvg' = Integration("ok", gpr, SingleAverageValues(xData, gpr),
                           ExpressionMapSingleAverage(xData, gpr).mapped_values)
  /\ UNCHANGED <<xRules, xData, xFill, xGeo, mvars, tvars, wvars, pvars, dvars, callerArgs>>

NextEx == ConstructGeometricAndAverageMeans \/ ConstructExpressionMapSingleAverage

SpecEx == InitEx /\ [][NextEx]_vars

\* ------------------------------------------------------------------------
\* Specification of PagerankNX.propagate as a function of its arguments
\* ------------------------------------------------------------------------
\* adjacency matrices of the model inputs under uniform expression
AdjacencyMatrices ==
  {Transform(p, S, rev, UniformExpression).value :
     p \in Policies, S \in ModelMatrices \cup {TwoNetworks}, rev \in ModelRevLists}

\* names: one per node, one too few, one too many
NameLists == {SubSeq(NamePool, 1, n) : n \in (NumMets - 1)..(NumMets + 1)}

\* seeds: None, lists of every length up to one more than the nodes whose
\* entries are 0 or 1, and a tuple
SeedLists ==
  {NoneObj, TupleObj([i \in Mets |-> 1])}
    \cup {ListObj(items) : items \in UNION {[1..n -> {0, 1}] : n \in 0..(NumMets + 1)}}

InitPR ==
  /\ prAdj \in AdjacencyMatrices
  /\ prNames \in NameLists
  /\ prSeeds \in SeedLists
  /\ prOut = NoResult
  /\ IdleModel
  /\ IdleAT
  /\ IdleWF
  /\ IdleEx
  /\ IdleVD
  /\ IdleCA

\* PagerankNX.propagate(adjacency_matrix, seeds, names)
Propagate ==
  /\ prOut.status = "none"
  /\ prOut' = propagate(prAdj, prSeeds, prNames, EmptyArgs)
  /\ UNCHANGED <<prAdj, prNames, prSeeds, mvars, tvars, wvars, xvars, dvars, callerArgs>>

NextPR == Propagate

SpecPR == InitPR /\ [][NextPR]_vars

\* ------------------------------------------------------------------------
\* Specification of a Model whose caller passes one dict, empty at first, as
\* pr_args to every calculate()
\* ------------------------------------------------------------------------
CalculateWithPrArgs ==
  \E done \in {calculate_pr_args(model, callerArgs)} :
    /\ model' = done.model
    /\ ret' = Call("calculate", NoneObj, done)
    /\ callerArgs' = pr_args_after_calculate(model, callerArgs)
    /\ UNCHANGED <<tvars, wvars, xvars, pvars, dvars>>

NextCA == LoadMetaboliteSeeds \/ CalculateWithPrArgs

SpecCA == Init /\ [][NextCA]_vars

\* ------------------------------------------------------------------------
\* verification.py and ExpressionIntegration._verify_data
\* ------------------------------------------------------------------------
\* an index label: a Python str or a Python int, with its text
StrKey(text) == [kind |-> "str", text |-> text]
IntKey(text) == [kind |-> "int", text |-> text]

\* pandas gives an index of ints the dtype int64, any other index (strings,
\* mixed labels, no labels) the dtype object
IndexDtype(index) ==
  IF index # <<>> /\ \A i \in 1..Len(index) : index[i].kind = "int"
  THEN "int64"
  ELSE "O"

\* frame.index.duplicated(keep="first").sum()
duplicated(index) ==
  Cardinality({i \in 1..Len(index) : \E j \in 1..(i - 1) : index[j] = index[i]})

raise_for_duplicated_index(index) ==
  IF duplicated(index) > 0 THEN Raise("ValueError") ELSE Ok(index)

\* if not series.dtype == "float64" or series.dtype == "int64": raise
raise_for_non_int_float_64_dtype(dtype) ==
  IF (~(dtype = "float64")) \/ dtype = "int64"
  THEN Raise("ValueError")
  ELSE Ok(dtype)

\* frame.index.astype(str) when the index dtype is not object
convert_index_to_str(index) ==
  IF ~(IndexDtype(index) = "O")
  THEN [i \in 1..Len(index) |-> StrKey(index[i].text)]
  ELSE index

\* ExpressionIntegration._verify_data(data): the index of the returned
\* series, or the exception of the first check that fails
verify_data(index, dtype) ==
  IF raise_for_duplicated_index(index).status # "ok"
  THEN raise_for_duplicated_index(index)
  ELSE IF raise_for_non_int_float_64_dtype(dtype).status # "ok"
  THEN raise_for_non_int_float_64_dtype(dtype)
  ELSE Ok(convert_index_to_str(index))

MaxIndex == 3
IndexKeys == {StrKey("G1"), StrKey("G2"), IntKey("1"), IntKey("2")}
Indexes == UNION {[1..n -> IndexKeys] : n \in 0..MaxIndex}
Dtypes == {"float64", "int64", "float32", "object"}

InitVD ==
  /\ vIndex \in Indexes
  /\ vDtype \in Dtypes
  /\ vOut = NoResult
  /\ IdleModel
  /\ IdleAT
  /\ IdleWF
  /\ IdleEx
  /\ IdlePR
  /\ IdleCA

\* ExpressionIntegration._verify_data(data)
VerifyData ==
  /\ vOut.status = "none"
  /\ vOut' = verify_data(vIndex, vDtype)
  /\ UNCHANGED <<vIndex, vDtype, mvars, tvars, wvars, xvars, pvars, callerArgs>>

NextVD == VerifyData

SpecVD == InitVD /\ [][NextVD]_vars

\* ------------------------------------------------------------------------
\* Properties
\* ------------------------------------------------------------------------
AllPoliciesRun == \A p \in Policies : tOut # <<>> /\ tOut[p].status = "ok"

RowIsZero(row) == \A j \in 1..Len(row.num) : row.num[j] = 0
RowSumsToOne(row) == SumSeq(row.num) = row.den /\ row.den # 0

\* C1: every row of the adjacency matrix returned by ATFullStoich,
\* ATHalfStoich and ATPureAdjacency is all zero or sums to 1
C1_RowsZeroOrOne ==
  tOut # <<>> =>
    \A p \in Policies : tOut[p].status = "ok" =>
      \A i \in 1..Len(tOut[p].value) :
        RowIsZero(tOut[p].value[i]) \/ RowSumsToOne(tOut[p].value[i])

\* a matrix with a zero row and a row that shares its weight between two
\* metabolites, transformed under all three policies
C1_Witness ==
  /\ AllPoliciesRun
  /\ \A p \in Policies :
       /\ \E i \in Mets : RowIsZero(tOut[p].value[i])
       /\ \E i \in Mets : tOut[p].value[i].den > 1

\* the property of the Model that a step is a call of the operation op
IsCall(op) == ret'.op = op /\ <<model, ret>> # <<model', ret'>>

\* C2: a successful load_expression(e) leaves the cache stale with e's mapped
\* values as expression vector, and a calculate() that follows it ranks the
\* adjacency transformed from those values, whatever was cached before
C2_LoadInvalidates ==
  [][/\ (IsCall("load_expression") /\ ret'.status = "ok") =>
          /\ ~model'.adjacencies_are_current
          /\ model'.expression = ret'.arg[1]
          /\ model'.expression_vector = ret'.arg[1].mapped_values
     /\ (IsCall("calculate") /\ ret.op = "load_expression" /\ ret.status = "ok") =>
          LET fresh == Transform(model.adjacency_transformation,
                                 model.stoichiometric_matrix,
                                 model.reversibilities,
                                 ret.arg[1].mapped_values)
              ranked == propagate(fresh.value, model.seeds,
                                  model.metabolite_names, EmptyArgs)
          IN  IF fresh.status # "ok"
              THEN ret'.status = fresh.status /\ model' = model
              ELSE /\ ret'.recomputed
                   /\ model'.adjacencies = fresh.value
                   /\ model'.adjacencies_are_current
                   /\ ret'.status = ranked.status
                   /\ ret'.status = "ok" =>
                        /\ model'.scores = ranked.value
                        /\ ret'.value = annotate_scores(ranked.value,
                                                        model.metabolite_names).value
    ]_vars

\* calculate() after load_expression has replaced an adjacency that was
\* cached for other expression values
C2_Witness ==
  /\ ret.op = "calculate" /\ ret.after = "load_expression" /\ ret.status = "ok"
  /\ ret.recomputed
  /\ ret.replaced
  /\ model.expression.type \in ExpressionClasses

\* C3: whenever the adjacency cache is marked current, the cached adjacency
\* is the transformation of the model's current stoichiometric matrix,
\* reversibilities and expression vector
C3_CacheMatchesInputs ==
  (model # <<>> /\ model.adjacencies_are_current) =>
     model.adjacencies = Transform(model.adjacency_transformation,
                                   model.stoichiometric_matrix,
                                   model.reversibilities,
                                   model.expression_vector).value

\* C4: calculate() on a Fresh model does not recompute the adjacency matrix,
\* and a calculate() repeated directly after a successful one returns the
\* same series
C4_RepeatedCalculate ==
  [][(IsCall("calculate") /\ model.adjacencies_are_current) =>
        /\ ~ret'.recomputed
        /\ model'.adjacencies = model.adjacencies
        /\ model'.adjacencies_are_current
        /\ (ret.op = "calculate" /\ ret.status = "ok") =>
             /\ ret'.status = "ok"
             /\ ret'.value = ret.value
             /\ model'.scores = model.scores
    ]_vars

\* a second calculate() in a row that returned scores from the cache
C4_Witness ==
  /\ ret.op = "calculate" /\ ret.after = "calculate" /\ ret.status = "ok"
  /\ ~ret.recomputed
  /\ model.adjacencies_are_current
  /\ model.expression.type \in ExpressionClasses

\* C5: load_metabolite_seeds, accepted or rejected, changes no field of the
\* model but seeds: the freshness flag, the cached adjacency and the loaded
\* expression stay as they were
C5_SeedsFrame ==
  [][IsCall("load_metabolite_seeds") =>
        /\ model'.adjacencies_are_current = model.adjacencies_are_current
        /\ model'.adjacencies = model.adjacencies
        /\ model'.expression = model.expression
        /\ model' = [model EXCEPT !.seeds = model'.seeds]
    ]_vars

\* a seed list accepted by a Fresh model that holds a loaded expression
C5_Witness ==
  /\ ret.op = "load_metabolite_seeds" /\ ret.status = "ok"
  /\ model.seeds.type = "list"
  /\ model.adjacencies_are_current
  /\ model.adjacencies # <<>>
  /\ model.expression.type \in ExpressionClasses

\* C6: load_expression with an object that is not an ExpressionIntegration
\* raises a type error and leaves the model unchanged
C6_RejectsNonExpression ==
  [][(IsCall("load_expression") /\ ret'.arg[1].type \notin ExpressionClasses) =>
        /\ ret'.status = "TypeError"
        /\ model' = model
    ]_vars

\* a rejected load_expression on a Fresh model that holds a loaded expression
C6_Witness ==
  /\ ret.op = "load_expression" /\ ret.status = "TypeError"
  /\ model.adjacencies_are_current
  /\ model.expression.type \in ExpressionClasses

\* C7: load_metabolite_seeds with a list whose length is not the number of
\* metabolites raises an error and keeps the seeds loaded before; the seeds
\* of a model are always absent or one per metabolite
C7_SeedLength ==
  /\ [][(/\ IsCall("load_metabolite_seeds")
         /\ ret'.arg[1].type = "list"
         /\ Len(ret'.arg[1].items) # NRows(model.stoichiometric_matrix)) =>
           /\ ret'.status = "ValueError"
           /\ model'.seeds = model.seeds
       ]_vars
  /\ [](model # <<>> =>
          \/ model.seeds = NoneObj
          \/ /\ model.seeds.type = "list"
             /\ Len(model.seeds.items) = NRows(model.stoichiometric_matrix))

\* a seed list of the wrong length rejected by a model that holds seeds
C7_Witness ==
  /\ ret.op = "load_metabolite_seeds" /\ ret.status = "ValueError"
  /\ Len(ret.arg[1].items) # NumMets
  /\ model.seeds.type = "list"

\* the name under which row i of the adjacency matrix is ranked
NodeOfRow(i) ==
  IF IsSeeded(model.seeds) THEN model.metabolite_names[i] ELSE DefaultNames[i]

\* C8: calculate() returns one score per metabolite in the row order of the
\* stoichiometric matrix; entry i is indexed by metabolite_names[i] and is
\* the rank of the node of adjacency row i, whose edges are the non-zero
\* entries of the adjacency matrix and, with seeds, whose personalization
\* is seed i
C8_ScoresInRowOrder ==
  (ret.op = "calculate" /\ ret.status = "ok") =>
    /\ Len(ret.value) = NRows(model.stoichiometric_matrix)
    /\ Len(model.scores) = NRows(model.stoichiometric_matrix)
    /\ \A i \in 1..Len(ret.value) :
         LET rank == ret.value[i][2] IN
         /\ ret.value[i][1] = model.metabolite_names[i]
         /\ rank = model.scores[i]
         /\ rank.node = NodeOfRow(i)
         /\ rank.nodes = [n \in 1..Len(model.adjacencies) |-> NodeOfRow(n)]
         /\ rank.edges =
              {<<NodeOfRow(e[1]), NodeOfRow(e[2]),
                 <<model.adjacencies[e[1]].num[e[2]], model.adjacencies[e[1]].den>>>> :
                 e \in {x \in (1..Len(model.adjacencies)) \X (1..Len(model.adjacencies)) :
                          model.adjacencies[x[1]].num[x[2]] # 0}}
         /\ rank.personalization[i] =
              IF IsSeeded(model.seeds) THEN <<model.seeds.items[i]>> ELSE <<>>

\* a seeded calculate() that returned scores
C8_Witness ==
  /\ ret.op = "calculate" /\ ret.status = "ok"
  /\ IsSeeded(model.seeds)
  /\ \E i \in Mets : model.seeds.items[i] # 0 /\ ~RowIsZero(model.adjacencies[i])

\* C9: workflow_avg_single yields the same adjacency and the same scores
\* for a gene series and for the series with every value doubled
C9_DoublingInvariant ==
  (wfSingle.status = "ok" /\ wfDouble.status = "ok") =>
    /\ wfSingle.adjacencies = wfDouble.adjacencies
    /\ wfSingle.value = wfDouble.value

UnitCoefficients ==
  \A i \in Mets, k \in Rxns : tS[i][k] \in {0 - 1, 0, 1}

\* C10: on a stoichiometric matrix with entries in {-1, 0, +1} and an
\* all-ones expression vector, with any reversibilities, the three policies
\* return the same adjacency matrix
C10_PoliciesAgreeOnUnitMatrix ==
  (/\ tOut # <<>>
   /\ \A p \in Policies : tOut[p].status # "none"
   /\ UnitCoefficients
   /\ \A k \in Rxns : tExpr[k] = One) =>
     /\ tOut["ATFullStoich"] = tOut["ATHalfStoich"]
     /\ tOut["ATHalfStoich"] = tOut["ATPureAdjacency"]

\* a unit matrix with a reversible reaction and uniform expression whose
\* adjacency has a row shared between two metabolites
C10_Witness ==
  /\ AllPoliciesRun
  /\ UnitCoefficients
  /\ \A k \in Rxns : tExpr[k] = One
  /\ \E k \in Rxns : tRev[k] = "True"
  /\ \E i \in Mets : tOut["ATFullStoich"].value[i].den > 1

\* the value of a gene: its entry in the series, gene_fill if it has none
GeneValue(gene) == IF gene \in DOMAIN xData THEN xData[gene] ELSE xFill

\* the value of an alternative: the gene's value, or the geometric mean of
\* the values of the genes of the group
AlternativeValue(alt) ==
  IF Len(alt.genes) = 1 THEN Rational(GeneValue(alt.genes[1]))
  ELSE geometric_mean([g \in 1..Len(alt.genes) |-> GeneValue(alt.genes[g])])

\* the sum of the values of the alternatives
RECURSIVE RuleValue(_)
RuleValue(alternatives) ==
  IF Len(alternatives) = 0 THEN Rational(0)
  ELSE Add(AlternativeValue(Head(alternatives)), RuleValue(Tail(alternatives)))

GeoDone == xGeo.status # "none"

C12_BareAndRunsAreGeometricMeans ==
  xGeo.status = "ok" =>
    \A k \in Rxns :
      xRules[k] \in ParenthesisedRules \cup BareRules =>
        xGeo.mapped_values[k] = <<RuleValue(xRules[k].alternatives)>>

\* C13: a malformed or unparseable rule does not abort the mapping pass:
\* the construction of GeometricAndAverageMeans does not raise, the score
\* of the affected reaction is NaN and then the fill value, every other
\* reaction is evaluated as usual, and an empty rule is NaN before the fill.
C13_MalformedRuleIsNotFatal ==
  GeoDone =>
    /\ xGeo.status = "ok"
    /\ \A k \in Rxns :
         /\ xRules[k].form = "malformed" \/ xRules[k] = EmptyRule =>
              /\ xGeo.mapped[k] = NaN
              /\ xGeo.mapped_values[k] = <<Rational(One)>>
         /\ xRules[k] \in ParenthesisedRules =>
              xGeo.mapped[k] = <<RuleValue(xRules[k].alternatives)>>

AvgDone == xAvg.status # "none"

\* C18: after the construction of ExpressionMapSingleAverage or of
\* GeometricAndAverageMeans the mapped values hold no NaN: a reaction
\* without genes, or with an empty rule, is NaN before the fill and 1.0
\* after it.
C18_NoNaNAfterConstruction ==
  /\ AvgDone =>
       \A k \in Rxns :
         /\ xAvg.mapped_values[k] \in Nat
         /\ xRules[k].genes = <<>> =>
              xAvg.mapped[k] = NaN /\ xAvg.mapped_values[k] = One
  /\ xGeo.status = "ok" =>
       \A k \in Rxns :
         /\ xGeo.mapped_values[k] # NaN
         /\ xGeo.mapped_values[k][1].kind = "number"
         /\ xRules[k].text = <<>> =>
              xGeo.mapped[k] = NaN /\ xGeo.mapped_values[k] = <<Rational(One)>>

\* both integrations built for an empty rule and a rule with a name that
\* is no gene of the reaction
C18_Witness ==
  /\ AvgDone /\ xGeo.status = "ok"
  /\ xRules[1] = EmptyRule /\ xRules[2] = UnknownGeneRule
  /\ xAvg.mapped[1] = NaN /\ xAvg.mapped_values[1] = One
  /\ xGeo.mapped = <<NaN, NaN>>
  /\ xGeo.mapped_values = <<<<Rational(One)>>, <<Rational(One)>>>>

\* the values of the genes of reaction k, 0 for a gene without value
ValuesOrZero(k) ==
  [g \in 1..Len(xRules[k].genes) |->
     IF xRules[k].genes[g] \in DOMAIN xData THEN xData[xRules[k].genes[g]] ELSE 0]

\* C19: ExpressionMapSingleAverage gives each reaction with at least one
\* gene the arithmetic mean of the expression values of its genes, with 0
\* for every gene that is absent from the series.
C19_SingleAverageIsMean ==
  AvgDone =>
    \A k \in Rxns :
      xRules[k].genes # <<>> =>
        /\ xAvg.mapped[k] # NaN
        /\ xAvg.mapped[k][1] * Len(xRules[k].genes) = SumSeq(ValuesOrZero(k))
        /\ xAvg.mapped_values[k] = xAvg.mapped[k][1]

\* the genes G4 (absent) and G1 = 2.0 average to 1.0 whatever gene_fill is,
\* next to three genes with the values 2, 3, 3
C19_Witness ==
  /\ AvgDone
  /\ xRules[1] = Rule(<<Single(4), Single(1)>>)
  /\ xRules[2] = Rule(<<Complex(<<1, 2, 3>>)>>)
  /\ xData[Gene(1)] = 2 * One /\ xData[Gene(2)] = 3 * One
  /\ xData[Gene(3)] = 3 * One /\ xFill = 2 * One
  /\ xAvg.mapped_values[1] = One
  /\ 3 * xAvg.mapped_values[2] = 8 * One

\* C14: an expression vector whose length is not the number of reactions,
\* length 1 included, is fatal: after load_expression of an integration
\* with such mapped values, calculate() raises and returns no scores
\* computed from the vector.
C14_WrongLengthIsFatal ==
  (/\ ret.op = "calculate"
   /\ model.expression.type \in ExpressionClasses
   /\ model.expression_vector = model.expression.mapped_values
   /\ Len(model.expression_vector) # NCols(model.stoichiometric_matrix)) =>
     ret.status # "ok"

\* rows i and j of an adjacency matrix are joined by an edge
Linked(adjacencies, i, j) ==
  adjacencies[i].num[j] # 0 \/ adjacencies[j].num[i] # 0

\* rows i and j are joined by a path of at most n edges, in either direction
RECURSIVE PathWithin(_, _, _, _)
PathWithin(adjacencies, i, j, n) ==
  \/ i = j
  \/ /\ n > 0
     /\ \E k \in 1..Len(adjacencies) :
          Linked(adjacencies, i, k) /\ PathWithin(adjacencies, k, j, n - 1)

\* the places of a name in a list of groups
PlacesOf(groups, name) ==
  {place \in (1..Len(groups)) \X Mets :
     place[2] <= Len(groups[place[1]]) /\ groups[place[1]][place[2]] = name}

\* C17: get_subnetworks() returns groups of metabolite names in which every
\* metabolite occurs exactly once, two metabolites sharing a group exactly
\* when they are weakly connected in the adjacency graph; a Stale model
\* recomputes the adjacency first, and the model is Fresh afterwards.
C17_SubnetworksPartition ==
  [][IsCall("get_subnetworks") =>
       LET fresh == Transform(model.adjacency_transformation,
                              model.stoichiometric_matrix,
                              model.reversibilities,
                              model.expression_vector)
           groups == ret'.value
           names == model.metabolite_names
       IN  IF ~model.adjacencies_are_current /\ fresh.status # "ok"
           THEN ret'.status = fresh.status /\ model' = model
           ELSE /\ ret'.status = "ok"
                /\ model'.adjacencies_are_current
                /\ ret'.recomputed = ~model.adjacencies_are_current
                /\ model'.adjacencies =
                     IF model.adjacencies_are_current THEN model.adjacencies
                     ELSE fresh.value
                /\ \A c \in 1..Len(groups) : Len(groups[c]) > 0
                /\ \A i \in Mets : Cardinality(PlacesOf(groups, names[i])) = 1
                /\ \A i, j \in Mets :
                     (\E c \in 1..Len(groups) :
                        /\ \E n \in 1..Len(groups[c]) : groups[c][n] = names[i]
                        /\ \E n \in 1..Len(groups[c]) : groups[c][n] = names[j])
                       <=> PathWithin(model'.adjacencies, i, j, NumMets - 1)
    ]_vars

\* get_subnetworks() on a Stale model with two subnetworks, and on a model
\* whose metabolites are all connected
C17_Witness ==
  /\ ret.op = "get_subnetworks" /\ ret.status = "ok" /\ ret.recomputed
  /\ model.adjacencies_are_current
  /\ model.stoichiometric_matrix = TwoNetworks
  /\ Len(ret.value) = 2
  /\ ret.value[1] = SubSeq(MetaboliteNames, 1, 2)

\* a reversibility list with an entry that is not a bool
NonBool(reversibilities) ==
  \E k \in 1..Len(reversibilities) : ~IsBool(reversibilities[k])

Broadcastable(expression, stoich_matrix) ==
  Len(expression) \in {1, NCols(stoich_matrix)}

\* C20: with a reversibility entry that is not a bool, make_unidirectional
\* and every transformation raise a type error and give no adjacency
\* matrix (the transformation raises the ValueError of the multiplication
\* first when the expression cannot be broadcast), and a Model whose
\* calculate() meets the error stays Stale.
C20_NonBoolReversibility ==
  (model # <<>> /\ NonBool(model.reversibilities)) =>
    /\ make_unidirectional(model.stoichiometric_matrix,
                           model.reversibilities) = Raise("TypeError")
    /\ \A p \in Policies :
         /\ Transform(p, model.stoichiometric_matrix, model.reversibilities,
                      UniformExpression) = Raise("TypeError")
         /\ Transform(p, model.stoichiometric_matrix, model.reversibilities,
                      model.expression_vector)
              = Raise(IF Broadcastable(model.expression_vector,
                                       model.stoichiometric_matrix)
                      THEN "TypeError" ELSE "ValueError")
    /\ ~model.adjacencies_are_current
    /\ model.adjacencies = <<>>
    /\ ret.op \in {"calculate", "get_subnetworks"} =>
         /\ ret.value = <<>>
         /\ ret.status = IF Broadcastable(model.expression_vector,
                                          model.stoichiometric_matrix)
                         THEN "TypeError" ELSE "ValueError"

\* calculate() raised the type error twice in a row on a model with an int
\* among its reversibilities and a loaded expression
C20_Witness ==
  /\ ret.op = "calculate" /\ ret.after = "calculate" /\ ret.status = "TypeError"
  /\ model.reversibilities = IntRevList
  /\ model.expression.type \in ExpressionClasses
  /\ ~model.adjacencies_are_current

\* the rank solver was called: propagate returned its scores or raised the
\* solver's own error
SolverInvoked == prOut.status \in {"ok", "ZeroDivisionError"}

\* C15: propagate raises ValueError, before the rank solver is invoked,
\* whenever the number of names differs from the number of graph nodes,
\* with or without seeds.
C15_NameCountMismatchIsFatal ==
  (prOut.status # "none" /\ Len(prNames) # Len(prAdj)) =>
    prOut.status = "ValueError"

\* C16: propagate rejects a call in which a non-empty seeds list has a
\* length different from the node count; it never runs the solver with a
\* personalization built from a truncated or partial seed list.
C16_SeedCountMismatchIsRejected ==
  (/\ prOut.status # "none"
   /\ IsSeeded(prSeeds)
   /\ Len(prSeeds.items) # Len(prAdj)) =>
     ~SolverInvoked

\* C21: gene values replace whole occurrences of a gene id only: in a rule
\* with G1 and G10 each gene contributes its own value to the score, in
\* whatever order the genes are substituted.
C21_WholeTokenSubstitution ==
  xGeo.status = "ok" =>
    \A k \in Rxns :
      xRules[k] \in SubstringRules =>
        xGeo.mapped_values[k] = <<RuleValue(xRules[k].alternatives)>>

\* C22: validation accepts a series of dtype float64 or int64 and raises
\* ValueError exactly when the dtype is neither of the two (the index having
\* no duplicates).
C22_AcceptsFloatAndInt ==
  (vOut.status # "none" /\ duplicated(vIndex) = 0) =>
    (vOut.status = "ValueError" <=> vDtype \notin {"float64", "int64"})

\* the number of reversible reactions among the first k
ReversibleUpTo(reversibilities, k) ==
  Cardinality({j \in 1..k : reversibilities[j] = "True"})

\* the expansion keeps the r columns of the matrix and appends, for the n-th
\* reversible reaction, its negated column as column r + n
IsExpansionOf(expanded, stoich_matrix, reversibilities) ==
  LET r == NCols(stoich_matrix) IN
  /\ NRows(expanded) = NRows(stoich_matrix)
  /\ \A i \in 1..NRows(stoich_matrix) :
       /\ Len(expanded[i]) = r + ReversibleUpTo(reversibilities, r)
       /\ \A k \in 1..r :
            /\ expanded[i][k] = stoich_matrix[i][k]
            /\ reversibilities[k] = "True" =>
                 expanded[i][r + ReversibleUpTo(reversibilities, k)]
                   = 0 - stoich_matrix[i][k]
  /\ ReversibleUpTo(reversibilities, r) = 0 => expanded = stoich_matrix

\* C23: make_unidirectional returns the columns of its input followed by
\* the negated column of every reversible reaction, in reaction order (the
\* input itself when no reaction is reversible), and a transform leaves the
\* stoichiometric matrix and the reversibilities it was given as they were.
C23_ExpansionAppendsNegatedColumns ==
  /\ [](tS # <<>> =>
         /\ make_unidirectional(tS, tRev).status = "ok"
         /\ IsExpansionOf(make_unidirectional(tS, tRev).value, tS, tRev))
  /\ [][tS' = tS /\ tRev' = tRev]_vars

\* all three policies have transformed a matrix whose second reaction only
\* is reversible and consumes the first metabolite
C23_Witness ==
  /\ AllPoliciesRun
  /\ tRev = [k \in Rxns |-> IF k = 2 THEN "True" ELSE "False"]
  /\ tS[1][2] < 0
  /\ make_unidirectional(tS, tRev).value[1] = tS[1] \o <<0 - tS[1][2]>>

\* the matrix with every coefficient of magnitude MaxCoef replaced by one of
\* magnitude 1 and every other non-zero coefficient by one of magnitude
\* MaxCoef: another matrix of the same sign pattern
OtherMagnitudes(matrix) ==
  [i \in 1..NRows(matrix) |-> [k \in 1..NCols(matrix) |->
     IF Abs(matrix[i][k]) = MaxCoef THEN UnitSign(matrix[i][k])
     ELSE MaxCoef * UnitSign(matrix[i][k])]]

SameSigns(left, right) == UnitSigns(left) = UnitSigns(right)

\* C24: ATPureAdjacency depends on the signs of the coefficients only: the
\* matrices of the same sign pattern with other magnitudes, transformed with
\* the same reversibilities and expression, give the same adjacency matrix.
C24_PureAdjacencyDependsOnSignsOnly ==
  tOut # <<>> /\ tOut["ATPureAdjacency"].status # "none" =>
    \A other \in {UnitSigns(tS), OtherMagnitudes(tS)} :
      /\ SameSigns(other, tS)
      /\ Transform("ATPureAdjacency", other, tRev, tExpr) = tOut["ATPureAdjacency"]

\* ATPureAdjacency returned a matrix with an edge for a stoichiometric
\* matrix whose magnitudes matter to ATHalfStoich
C24_Witness ==
  /\ AllPoliciesRun
  /\ \E i \in Mets : ~RowIsZero(tOut["ATPureAdjacency"].value[i])
  /\ OtherMagnitudes(tS) # tS
  /\ Transform("ATHalfStoich", OtherMagnitudes(tS), tRev, tExpr) # tOut["ATHalfStoich"]

\* the amount of metabolite i in reaction k scaled by the expression of k
ScaledAmount(i, k) == tS[i][k] * tExpr[k]

Consumed(amount) == IF amount < 0 THEN 0 - amount ELSE 0
Produced(amount) == IF amount > 0 THEN amount ELSE 0

\* |amount of i consumed| * (amount of j produced), summed over every
\* reaction and over the reverse of every reversible reaction
EdgeWeight(i, j) ==
  SumSeq([k \in Rxns |->
            Consumed(ScaledAmount(i, k)) * Produced(ScaledAmount(j, k))])
  + SumSeq([k \in Rxns |->
              IF tRev[k] = "True"
              THEN Consumed(0 - ScaledAmount(i, k)) * Produced(0 - ScaledAmount(j, k))
              ELSE 0])

RowWeight(i) == SumSeq([j \in Mets |-> EdgeWeight(i, j)])

\* the adjacency row i holds the edge weights of i divided by their sum (as
\* fractions in lowest terms), and zeros when the sum is zero
RowIsNormalisedWeights(row, i) ==
  row = NormaliseRow([j \in Mets |-> EdgeWeight(i, j)], RowWeight(i))

\* C25: ATFullStoich returns for the edge i -> j the sum over the scaled and
\* expanded reactions of |amount of i consumed| * (amount of j produced),
\* divided by the sum of these weights over row i.
C25_FullStoichWeights ==
  (tOut # <<>> /\ tOut["ATFullStoich"].status = "ok") =>
    \A i \in Mets : RowIsNormalisedWeights(tOut["ATFullStoich"].value[i], i)

\* the matrix ATFullStoich and ATHalfStoich pass to split_matrix_pos_neg
SplitArgument ==
  make_unidirectional(ScaleColumns(tS, tExpr).value, tRev).value

\* C27: split_matrix_pos_neg keeps every entry that lies strictly between
\* -epsilon and +epsilon in the positive part and not in the negative part.
C27_NearZeroEntriesArePositive ==
  (tOut # <<>> /\ tOut["ATFullStoich"].status = "ok") =>
    \A i \in 1..NRows(SplitArgument), k \in 1..NCols(SplitArgument) :
      (0 - epsilon < SplitArgument[i][k] /\ SplitArgument[i][k] < epsilon) =>
        /\ split_matrix_pos_neg(SplitArgument)[1][i][k] = SplitArgument[i][k]
        /\ split_matrix_pos_neg(SplitArgument)[2][i][k] = 0

\* some reaction, or the reverse of a reversible one, consumes metabolite i
\* and produces another metabolite
ConsumedWithProduct(i) ==
  \E k \in Rxns, j \in Mets \ {i} :
    \/ ScaledAmount(i, k) < 0 /\ ScaledAmount(j, k) > 0
    \/ tRev[k] = "True" /\ ScaledAmount(i, k) > 0 /\ ScaledAmount(j, k) < 0

\* C26: every policy returns normally, and a metabolite that no expanded,
\* expression-scaled reaction consumes while producing another metabolite
\* has an all-zero adjacency row.
C26_DeadEndHasZeroRow ==
  tOut # <<>> =>
    \A p \in Policies : tOut[p].status # "none" =>
      /\ tOut[p].status = "ok"
      /\ \A i \in Mets :
           ~ConsumedWithProduct(i) => RowIsZero(tOut[p].value[i])

\* C30: the adjacency matrix of every policy has no self-loop and no
\* negative weight: A[i][i] = 0 and 0 <= A[i][j] <= 1 for all metabolites,
\* also when reversible reactions are expanded.
C30_NoSelfLoopsNoNegativeWeights ==
  tOut # <<>> =>
    \A p \in Policies : tOut[p].status = "ok" =>
      \A i \in Mets :
        /\ tOut[p].value[i].den > 0
        /\ tOut[p].value[i].num[i] = 0
        /\ \A j \in Mets :
             /\ 0 <= tOut[p].value[i].num[j]
             /\ tOut[p].value[i].num[j] <= tOut[p].value[i].den

\* all three policies transformed a matrix with a reversible reaction, of
\* which the forward column links the first metabolite to the second and the
\* reverse column the second to the first
C30_Witness ==
  /\ AllPoliciesRun
  /\ \E k \in Rxns : tRev[k] = "True" /\ tS[1][k] < 0 /\ tS[2][k] > 0
  /\ \A p \in Policies :
       /\ tOut[p].value[1].num[2] > 0
       /\ tOut[p].value[2].num[1] > 0

\* the scores calculate() returned come from a rank without personalization
Unpersonalized(series) ==
  \A i \in 1..Len(series) :
    \A n \in 1..Len(series[i][2].personalization) :
      series[i][2].personalization[n] = <<>>

\* C28: a calculate() on a model without seeds is unpersonalized whatever
\* happened before: the dict the caller passes as pr_args is left without a
\* personalization, and none of an earlier seeded calculate() that got the
\* same dict carries over into the call.
C28_UnseededCalculateIsUnpersonalized ==
  (ret.op = "calculate" /\ ~IsSeeded(model.seeds)) =>
    /\ ~callerArgs.has_personalization
    /\ ret.status # "ZeroDivisionError"
    /\ ret.status = "ok" => Unpersonalized(ret.value)

\* the adjacency transformed from the fields of a Model
TransformOf(self) ==
  Transform(self.adjacency_transformation, self.stoichiometric_matrix,
            self.reversibilities, self.expression_vector)

\* C29: a calculate() that raises in the transformation or in the ranking
\* leaves Model.scores as it was; it marks the cache current only with the
\* adjacency transformed from the current inputs stored, and when the
\* transformation fails the model stays Stale with its fields as they were.
C29_FailedCalculate ==
  [][(IsCall("calculate") /\ ret'.status # "ok") =>
       /\ model'.scores = model.scores
       /\ (~model.adjacencies_are_current /\ model'.adjacencies_are_current) =>
            /\ ret'.recomputed
            /\ TransformOf(model) = Ok(model'.adjacencies)
       /\ (~model.adjacencies_are_current /\ TransformOf(model).status # "ok") =>
            /\ model' = model
            /\ ret'.status = TransformOf(model).status
            /\ calculate(model').status = TransformOf(model).status]_vars

\* calculate() raised in the ranking (all seeds zero) after it recomputed the
\* adjacency of a Stale model that holds the scores of an earlier call
C29_Witness ==
  /\ ret.op = "calculate" /\ ret.status = "ZeroDivisionError"
  /\ ret.recomputed /\ ret.replaced
  /\ model.adjacencies_are_current
  /\ model.scores # <<>>

====
